---- MODULE Spec2Model ----
(***************************************************************************)
(* Model of moonlink's iceberg manifest rewrite                            *)
(* (storage/iceberg/puffin_writer_proxy.rs): the pass                      *)
(* append_puffin_metadata_and_rewrite over the manifest list of the        *)
(* current snapshot, with the record builders it calls.                    *)
(* With it, the fault-injecting FileSystemWrapper of                       *)
(* storage/filesystem/accessor/filesystem_accessor_wrapper.rs.             *)
(***************************************************************************)
EXTENDS Integers, Sequences, FiniteSets, TLC

\* ------------------------------------------------------------------------
\* Bounds of the explored inputs
\* ------------------------------------------------------------------------
MaxManifests == 2   \* manifest files in the current manifest list
MaxItems == 3       \* existing manifest entries plus new puffin blobs
MaxCalls == 2       \* operations in flight on one FileSystemWrapper
MaxLatency == 2     \* low 64 bits of the latencies, in nanoseconds

\* ------------------------------------------------------------------------
\* Values
\* ------------------------------------------------------------------------
\* Option<T>: None is the empty sequence, Some(v) the one-element sequence.
None == <<>>
Some(v) == <<v>>
unwrap(o) == o[1]

\* puffin blob types (iceberg::puffin::DELETION_VECTOR_V1 and
\* index::MOONCAKE_HASH_INDEX_V1)
DELETION_VECTOR_V1 == "deletion-vector-v1"
MOONCAKE_HASH_INDEX_V1 == "mooncake-hash-index-v1"

\* A u64 is hi * 2^63 + lo with hi in {0, 1}; an i64 is sign * 2^63 + lo
\* with sign in {-1, 0}.
U64(hi, lo) == [hi |-> hi, lo |-> lo]

\* `x as i64` on a u64: the same 64 bits read as two's complement.
AsI64(u) == [sign |-> 0 - u.hi, lo |-> u.lo]

Digits == {"0", "1", "2", "3", "4", "5", "6", "7", "8", "9"}

DigitValue(c) ==
    CASE c = "0" -> 0 [] c = "1" -> 1 [] c = "2" -> 2 [] c = "3" -> 3
      [] c = "4" -> 4 [] c = "5" -> 5 [] c = "6" -> 6 [] c = "7" -> 7
      [] c = "8" -> 8 [] c = "9" -> 9

RECURSIVE DecimalValue(_, _)
DecimalValue(s, acc) ==
    IF s = <<>> THEN acc ELSE DecimalValue(Tail(s), acc * 10 + DigitValue(Head(s)))

\* str::parse::<u64>() on a string given as its sequence of characters:
\* an optional leading "+", then one or more decimal digits. The result is
\* None for Err(_) and Some(n) for Ok(n). (The strings of the model are too
\* short to overflow 64 bits.)
ParseU64(s) ==
    LET body == IF s # <<>> /\ Head(s) = "+" THEN Tail(s) ELSE s
    IN  IF body = <<>> \/ \E i \in 1..Len(body) : body[i] \notin Digits
        THEN None
        ELSE Some(DecimalValue(body, 0))

\* ------------------------------------------------------------------------
\* Records
\* ------------------------------------------------------------------------
\* PuffinBlobMetadataProxy. `properties` keeps the two keys the record
\* builders read: the referenced data file and the cardinality, each None
\* when the key is absent from the map.
BlobMetadata(type, ref, card, offset, length, seq) ==
    [type |-> type,
     sequence_number |-> seq,
     offset |-> offset,
     length |-> length,
     properties |-> [referenced_data_file |-> ref, cardinality |-> card]]

\* DataFileProxy. `stats` stands for the column maps, key metadata, split
\* offsets, equality ids and sort order id: the set of those that are set.
DataFileProxy(content, path, format, count, size, ref, offset, length) ==
    [content |-> content,
     file_path |-> path,
     file_format |-> format,
     record_count |-> count,
     file_size_in_bytes |-> size,
     stats |-> {},
     referenced_data_file |-> ref,
     content_offset |-> offset,
     content_size_in_bytes |-> length]

\* A manifest entry: its data file and its sequence number.
ManifestEntry(data_file, seq) == [data_file |-> data_file, sequence_number |-> seq]

\* The outcome of a step that can panic: `panic` is "" when it did not.
Panicked(kind) == [panic |-> kind]

\* get_data_file_for_file_index: the assertion on the blob type, then the
\* unwraps of the cardinality property and of its parse.
get_data_file_for_file_index(puffin_filepath, blob_metadata) ==
    LET card == blob_metadata.properties.cardinality
    IN  IF blob_metadata.type # MOONCAKE_HASH_INDEX_V1 THEN Panicked("UnexpectedBlobType")
        ELSE IF card = None THEN Panicked("MalformedBlob")
        ELSE IF ParseU64(unwrap(card)) = None THEN Panicked("MalformedBlob")
        ELSE [panic |-> "",
              data_file |-> DataFileProxy("Data", puffin_filepath, "Puffin",
                                ParseU64(unwrap(card))[1], 0, None, None, None)]

\* The builder with the blob's offset and length exchanged.
get_data_file_for_deletion_vector_Swapped(puffin_filepath, blob_metadata) ==
    LET ref == blob_metadata.properties.referenced_data_file
        card == blob_metadata.properties.cardinality
    IN  IF blob_metadata.type # DELETION_VECTOR_V1 THEN Panicked("UnexpectedBlobType")
        ELSE IF ref = None THEN Panicked("MalformedBlob")
        ELSE IF card = None THEN Panicked("MalformedBlob")
        ELSE IF ParseU64(unwrap(card)) = None THEN Panicked("MalformedBlob")
        ELSE [panic |-> "",
              referenced_data_filepath |-> unwrap(ref),
              data_file |-> DataFileProxy("PositionDeletes", puffin_filepath, "Puffin",
                                ParseU64(unwrap(card))[1], 0, Some(unwrap(ref)),
                                Some(AsI64(blob_metadata.length)),
                                Some(AsI64(blob_metadata.offset)))]

\* The builder with the cardinality defaulting to 0 when it is absent or
\* not a number (unwrap_or_default in place of the unwraps).
get_data_file_for_deletion_vector_Lenient(puffin_filepath, blob_metadata) ==
    LET ref == blob_metadata.properties.referenced_data_file
        card == blob_metadata.properties.cardinality
        count == IF card = None \/ ParseU64(unwrap(card)) = None THEN 0
                 ELSE ParseU64(unwrap(card))[1]
    IN  IF blob_metadata.type # DELETION_VECTOR_V1 THEN Panicked("UnexpectedBlobType")
        ELSE IF ref = None THEN Panicked("MalformedBlob")
        ELSE [panic |-> "",
              referenced_data_filepath |-> unwrap(ref),
              data_file |-> DataFileProxy("PositionDeletes", puffin_filepath, "Puffin",
                                count, 0, Some(unwrap(ref)),
                                Some(AsI64(blob_metadata.offset)),
                                Some(AsI64(blob_metadata.length)))]

\* The builder without the assertion on the blob type.
get_data_file_for_deletion_vector_AnyType(puffin_filepath, blob_metadata) ==
    LET ref == blob_metadata.properties.referenced_data_file
        card == blob_metadata.properties.cardinality
    IN  IF ref = None THEN Panicked("MalformedBlob")
        ELSE IF card = None THEN Panicked("MalformedBlob")
        ELSE IF ParseU64(unwrap(card)) = None THEN Panicked("MalformedBlob")
        ELSE [panic |-> "",
              referenced_data_filepath |-> unwrap(ref),
              data_file |-> DataFileProxy("PositionDeletes", puffin_filepath, "Puffin",
                                ParseU64(unwrap(card))[1], 0, Some(unwrap(ref)),
                                Some(AsI64(blob_metadata.offset)),
                                Some(AsI64(blob_metadata.length)))]

\* get_data_file_for_deletion_vector: the assertion on the blob type, the
\* unwrap of the referenced data file, then those of the cardinality.
get_data_file_for_deletion_vector(puffin_filepath, blob_metadata) ==
    LET ref == blob_metadata.properties.referenced_data_file
        card == blob_metadata.properties.cardinality
    IN  IF blob_metadata.type # DELETION_VECTOR_V1 THEN Panicked("UnexpectedBlobType")
        ELSE IF ref = None THEN Panicked("MalformedBlob")
        ELSE IF card = None THEN Panicked("MalformedBlob")
        ELSE IF ParseU64(unwrap(card)) = None THEN Panicked("MalformedBlob")
        ELSE [panic |-> "",
              referenced_data_filepath |-> unwrap(ref),
              data_file |-> DataFileProxy("PositionDeletes", puffin_filepath, "Puffin",
                                ParseU64(unwrap(card))[1], 0, Some(unwrap(ref)),
                                Some(AsI64(blob_metadata.offset)),
                                Some(AsI64(blob_metadata.length)))]

\* ------------------------------------------------------------------------
\* State
\* ------------------------------------------------------------------------
VARIABLES
    has_snapshot,                     \* table_metadata.current_snapshot() is Some
    list_obj,                         \* the object at cur_snapshot.manifest_list()
    new_objects,                      \* objects written under <location>/metadata/
    initial_list,                     \* list_obj before the invocation (history)
    data_files_to_remove,             \* argument
    puffin_blobs_to_add,              \* argument
    puffin_blobs_to_remove,           \* argument
    pc,                               \* position of the pass
    result,                           \* how the invocation ended
    manifest_list,                    \* the loaded manifest list
    next_manifest,                    \* index of the manifest the loop is at
    manifest_list_writer,             \* manifests added to the new list
    data_file_manifest_writer,        \* Option<ManifestWriter>
    deletion_vector_manifest_writer,  \* Option<ManifestWriter>
    file_index_manifest_writer,       \* Option<ManifestWriter>
    existing_deletion_vector_entries, \* referenced data file -> manifest entry
    pending_archives,                 \* keys of puffin_blobs_to_add not yet visited
    uuid_count,                       \* Uuid::now_v7() values handed out
    puffin_writer,                    \* the PuffinWriter handed to the extraction
    appended_blobs,                   \* the blobs added to it (history)
    puffin_metadata,                  \* local of get_puffin_metadata_and_close
    extract_pc,                       \* position of get_puffin_metadata_and_close
    extract_result,                   \* what get_puffin_metadata_and_close returned
    option,                           \* FileSystemWrapper.option
    rng,                              \* FileSystemWrapper.rng: the Mutex<StdRng>
    inner,                            \* FileSystemWrapper.inner: the calls it received
    calls                             \* the operations in flight on the wrapper

vars == <<has_snapshot, list_obj, new_objects, initial_list, data_files_to_remove,
          puffin_blobs_to_add, puffin_blobs_to_remove, pc, result, manifest_list,
          next_manifest, manifest_list_writer, data_file_manifest_writer,
          deletion_vector_manifest_writer, file_index_manifest_writer,
          existing_deletion_vector_entries, pending_archives, uuid_count,
          puffin_writer, appended_blobs, puffin_metadata, extract_pc, extract_result,
          option, rng, inner, calls>>

table_vars == <<has_snapshot, initial_list>>
extract_vars == <<puffin_writer, appended_blobs, puffin_metadata, extract_pc,
                  extract_result>>
wrapper_vars == <<option, rng, inner, calls>>
request_vars == <<data_files_to_remove, puffin_blobs_to_add, puffin_blobs_to_remove>>
writer_vars == <<data_file_manifest_writer, deletion_vector_manifest_writer,
                 file_index_manifest_writer, existing_deletion_vector_entries,
                 uuid_count>>

\* Results of the invocation: Ok(()), an Err(_) returned through `?`, or a
\* panic of an unwrap or an assertion; `at` is the step that ended the pass.
Running == [status |-> "Running", kind |-> "", at |-> ""]
Ok == [status |-> "Ok", kind |-> "", at |-> ""]
Err(kind) == [status |-> "Err", kind |-> kind, at |-> ""]
Panic(kind) == [status |-> "Panic", kind |-> kind, at |-> ""]

\* A manifest file as the manifest list refers to it, with its entries.
ManifestFile(path, content, entries) ==
    [manifest_path |-> path, content |-> content, entries |-> entries]

\* A manifest list object: readable with its manifests, or a truncated write.
ManifestListObject(manifests) == [manifests |-> manifests, truncated |-> FALSE]
TruncatedObject == [manifests |-> <<>>, truncated |-> TRUE]

\* ------------------------------------------------------------------------
\* Manifest writers
\* ------------------------------------------------------------------------
\* create_manifest_writer_builder with build_v2_data / build_v2_deletes: a
\* writer on a fresh "<location>/metadata/<uuid>-m0.avro".
create_manifest_writer_builder(content, uuid) ==
    ManifestFile(<<"uuid", uuid>>, content, <<>>)

\* add_file with the sequence number advanced by one.
AddFile_NextSequence(st, field, content, data_file, seq) ==
    LET fresh == st[field] = None
        writer == IF fresh THEN create_manifest_writer_builder(content, st.uuid + 1)
                  ELSE unwrap(st[field])
        added == [writer EXCEPT !.entries = Append(@, ManifestEntry(data_file, seq + 1))]
    IN  [st EXCEPT ![field] = Some(added),
                   !.uuid = IF fresh THEN @ + 1 ELSE @]

\* The three init_..._for_once closures followed by add_file: `st` holds the
\* writers, `field` names the writer, `content` is what the builder builds.
AddFile(st, field, content, data_file, seq) ==
    LET fresh == st[field] = None
        writer == IF fresh THEN create_manifest_writer_builder(content, st.uuid + 1)
                  ELSE unwrap(st[field])
        added == [writer EXCEPT !.entries = Append(@, ManifestEntry(data_file, seq))]
    IN  [st EXCEPT ![field] = Some(added),
                   !.uuid = IF fresh THEN @ + 1 ELSE @]

\* The writers and the deletion vector map as one value, for the loops.
LoopState ==
    [data_w |-> data_file_manifest_writer,
     index_w |-> file_index_manifest_writer,
     dv_w |-> deletion_vector_manifest_writer,
     dv_map |-> existing_deletion_vector_entries,
     uuid |-> uuid_count,
     panic |-> ""]

SetLoopState(st) ==
    /\ data_file_manifest_writer' = st.data_w
    /\ file_index_manifest_writer' = st.index_w
    /\ deletion_vector_manifest_writer' = st.dv_w
    /\ existing_deletion_vector_entries' = st.dv_map
    /\ uuid_count' = st.uuid

\* An insert that keeps the map as it was.
MapInsert_Dropped(map, key, value) == map

\* HashMap::insert on the deletion vector map.
MapInsert(map, key, value) ==
    [k \in DOMAIN map \cup {key} |-> IF k = key THEN value ELSE map[k]]

\* HashMap::remove on the deletion vector map.
MapRemove(map, key) == [k \in DOMAIN map \ {key} |-> map[k]]

\* ------------------------------------------------------------------------
\* The loop over the entries of one manifest (lines 437-505)
\* ------------------------------------------------------------------------
\* The entry step with the data manifest writer initialised before the test
\* of line 445 on the removal set.
ProcessEntry_InitBeforeSkip(st, content, entry) ==
    LET df == entry.data_file IN
    IF df.file_format = "Parquet" THEN
        IF content # "Data" THEN [st EXCEPT !.panic = "InconsistentManifest"]
        ELSE IF df.file_path \in data_files_to_remove THEN
            IF st.data_w # None THEN st
            ELSE [st EXCEPT !.data_w = Some(create_manifest_writer_builder("Data", st.uuid + 1)),
                            !.uuid = @ + 1]
        ELSE AddFile(st, "data_w", "Data", df, entry.sequence_number)
    ELSE IF df.file_format # "Puffin" THEN [st EXCEPT !.panic = "InconsistentManifest"]
    ELSE IF content = "Data" THEN
        IF df.file_path \in puffin_blobs_to_remove THEN st
        ELSE AddFile(st, "index_w", "Data", df, entry.sequence_number)
    ELSE IF content # "Deletes" THEN [st EXCEPT !.panic = "InconsistentManifest"]
    ELSE IF df.referenced_data_file = None
        THEN [st EXCEPT !.panic = "MissingReferencedDataFile"]
    ELSE IF unwrap(df.referenced_data_file) \in data_files_to_remove THEN st
    ELSE IF unwrap(df.referenced_data_file) \in DOMAIN st.dv_map
        THEN [st EXCEPT !.panic = "DuplicateDeletionVector"]
    ELSE [st EXCEPT !.dv_map = MapInsert(@, unwrap(df.referenced_data_file), entry)]

\* The entry step with the insert of line 493 but not the assertion on it:
\* a later deletion vector of the same data file replaces the earlier one.
ProcessEntry_KeepLast(st, content, entry) ==
    LET df == entry.data_file IN
    IF df.file_format = "Parquet" THEN
        IF content # "Data" THEN [st EXCEPT !.panic = "InconsistentManifest"]
        ELSE IF df.file_path \in data_files_to_remove THEN st
        ELSE AddFile(st, "data_w", "Data", df, entry.sequence_number)
    ELSE IF df.file_format # "Puffin" THEN [st EXCEPT !.panic = "InconsistentManifest"]
    ELSE IF content = "Data" THEN
        IF df.file_path \in puffin_blobs_to_remove THEN st
        ELSE AddFile(st, "index_w", "Data", df, entry.sequence_number)
    ELSE IF content # "Deletes" THEN [st EXCEPT !.panic = "InconsistentManifest"]
    ELSE IF df.referenced_data_file = None
        THEN [st EXCEPT !.panic = "MissingReferencedDataFile"]
    ELSE IF unwrap(df.referenced_data_file) \in data_files_to_remove THEN st
    ELSE [st EXCEPT !.dv_map = MapInsert(@, unwrap(df.referenced_data_file), entry)]

\* The entry step without the assertion of line 461 on the file format.
ProcessEntry_NoFormatAssert(st, content, entry) ==
    LET df == entry.data_file IN
    IF df.file_format = "Parquet" THEN
        IF content # "Data" THEN [st EXCEPT !.panic = "InconsistentManifest"]
        ELSE IF df.file_path \in data_files_to_remove THEN st
        ELSE AddFile(st, "data_w", "Data", df, entry.sequence_number)
    ELSE IF content = "Data" THEN
        IF df.file_path \in puffin_blobs_to_remove THEN st
        ELSE AddFile(st, "index_w", "Data", df, entry.sequence_number)
    ELSE IF content # "Deletes" THEN [st EXCEPT !.panic = "InconsistentManifest"]
    ELSE IF df.referenced_data_file = None
        THEN [st EXCEPT !.panic = "MissingReferencedDataFile"]
    ELSE IF unwrap(df.referenced_data_file) \in data_files_to_remove THEN st
    ELSE IF unwrap(df.referenced_data_file) \in DOMAIN st.dv_map
        THEN [st EXCEPT !.panic = "DuplicateDeletionVector"]
    ELSE [st EXCEPT !.dv_map = MapInsert(@, unwrap(df.referenced_data_file), entry)]

\* One entry of a manifest (lines 437-505).
ProcessEntry(st, content, entry) ==
    LET df == entry.data_file IN
    IF df.file_format = "Parquet" THEN
        \* Data file entries.
        IF content # "Data" THEN [st EXCEPT !.panic = "InconsistentManifest"]
        ELSE IF df.file_path \in data_files_to_remove THEN st
        ELSE AddFile(st, "data_w", "Data", df, entry.sequence_number)
    ELSE IF df.file_format # "Puffin" THEN [st EXCEPT !.panic = "InconsistentManifest"]
    ELSE IF content = "Data" THEN
        \* File indices entries.
        IF df.file_path \in puffin_blobs_to_remove THEN st
        ELSE AddFile(st, "index_w", "Data", df, entry.sequence_number)
    ELSE IF content # "Deletes" THEN [st EXCEPT !.panic = "InconsistentManifest"]
    \* Deletion vector entries.
    ELSE IF df.referenced_data_file = None
        THEN [st EXCEPT !.panic = "MissingReferencedDataFile"]
    ELSE IF unwrap(df.referenced_data_file) \in data_files_to_remove THEN st
    ELSE IF unwrap(df.referenced_data_file) \in DOMAIN st.dv_map
        THEN [st EXCEPT !.panic = "DuplicateDeletionVector"]
    ELSE [st EXCEPT !.dv_map = MapInsert(@, unwrap(df.referenced_data_file), entry)]

RECURSIVE ProcessEntries(_, _, _)
ProcessEntries(st, content, entries) ==
    IF entries = <<>> \/ st.panic # "" THEN st
    ELSE ProcessEntries(ProcessEntry(st, content, Head(entries)), content, Tail(entries))

\* The carry-over test taken when there are data files to remove.
IsUntouchedDataManifest_WhenRemoving(manifest) ==
    /\ manifest.content = "Data"
    /\ manifest.entries[1].data_file.file_format = "Parquet"
    /\ data_files_to_remove # {}

\* The carry-over test of lines 428-430.
IsUntouchedDataManifest(manifest) ==
    /\ manifest.content = "Data"
    /\ manifest.entries[1].data_file.file_format = "Parquet"
    /\ data_files_to_remove = {}

\* ------------------------------------------------------------------------
\* The loop over the blobs of one puffin file (lines 510-531)
\* ------------------------------------------------------------------------
\* The blob step without the removal of line 525.
ProcessBlob_KeepOld(st, puffin_filepath, blob) ==
    IF blob.type = MOONCAKE_HASH_INDEX_V1 THEN
        LET built == get_data_file_for_file_index(puffin_filepath, blob) IN
        IF built.panic # "" THEN [st EXCEPT !.panic = built.panic]
        ELSE AddFile(st, "index_w", "Data", built.data_file, blob.sequence_number)
    ELSE
        LET built == get_data_file_for_deletion_vector(puffin_filepath, blob) IN
        IF built.panic # "" THEN [st EXCEPT !.panic = built.panic]
        ELSE AddFile(st, "dv_w", "Deletes", built.data_file, blob.sequence_number)

\* The blob step that passes over the blobs of a puffin file that is in
\* puffin_blobs_to_remove.
ProcessBlob_SkipRemoved(st, puffin_filepath, blob) ==
    IF puffin_filepath \in puffin_blobs_to_remove THEN st
    ELSE IF blob.type = MOONCAKE_HASH_INDEX_V1 THEN
        LET built == get_data_file_for_file_index(puffin_filepath, blob) IN
        IF built.panic # "" THEN [st EXCEPT !.panic = built.panic]
        ELSE AddFile(st, "index_w", "Data", built.data_file, blob.sequence_number)
    ELSE
        LET built == get_data_file_for_deletion_vector(puffin_filepath, blob) IN
        IF built.panic # "" THEN [st EXCEPT !.panic = built.panic]
        ELSE AddFile([st EXCEPT !.dv_map = MapRemove(@, built.referenced_data_filepath)],
                     "dv_w", "Deletes", built.data_file, blob.sequence_number)

\* One blob of the request (lines 511-530).
ProcessBlob(st, puffin_filepath, blob) ==
    IF blob.type = MOONCAKE_HASH_INDEX_V1 THEN
        LET built == get_data_file_for_file_index(puffin_filepath, blob) IN
        IF built.panic # "" THEN [st EXCEPT !.panic = built.panic]
        ELSE AddFile(st, "index_w", "Data", built.data_file, blob.sequence_number)
    ELSE
        LET built == get_data_file_for_deletion_vector(puffin_filepath, blob) IN
        IF built.panic # "" THEN [st EXCEPT !.panic = built.panic]
        ELSE AddFile([st EXCEPT !.dv_map = MapRemove(@, built.referenced_data_filepath)],
                     "dv_w", "Deletes", built.data_file, blob.sequence_number)

RECURSIVE ProcessBlobs(_, _, _)
ProcessBlobs(st, puffin_filepath, blobs) ==
    IF blobs = <<>> \/ st.panic # "" THEN st
    ELSE ProcessBlobs(ProcessBlob(st, puffin_filepath, Head(blobs)), puffin_filepath,
                      Tail(blobs))

\* The loop of lines 535-541 over the drained map, visiting the keys in the
\* order `keys`.
RECURSIVE DrainEntries(_, _)
DrainEntries(st, keys) ==
    IF keys = <<>> THEN [st EXCEPT !.dv_map = <<>>]
    ELSE DrainEntries(AddFile(st, "dv_w", "Deletes", st.dv_map[Head(keys)].data_file,
                              st.dv_map[Head(keys)].sequence_number),
                      Tail(keys))

\* The orders in which a hash map can hand out the keys in `S`.
Orders(S) ==
    {order \in [1..Cardinality(S) -> S] : \A i, j \in DOMAIN order : i # j => order[i] # order[j]}

\* ------------------------------------------------------------------------
\* append_puffin_metadata_and_rewrite, one action per step between awaits
\* ------------------------------------------------------------------------
\* An error is recorded and the pass goes on to close the manifest list.
Finish_CloseAnyway(r) ==
    /\ pc' = IF r.status = "Ok" THEN "done" ELSE "close"
    /\ result' = [r EXCEPT !.at = pc]

\* The invocation ends with `r`; nothing of the pass is kept.
Finish(r) ==
    /\ pc' = "done"
    /\ result' = [r EXCEPT !.at = pc]

\* The first of the three flushes (lines 543-569) that has a writer, or the
\* close of the manifest list.
FlushStage(data_w, index_w, dv_w) ==
    IF data_w # None THEN "flush_data"
    ELSE IF index_w # None THEN "flush_index"
    ELSE IF dv_w # None THEN "flush_dv"
    ELSE "close"

\* Where the pass goes once manifest `i` of `list` is done.
AfterManifest(i, list) ==
    IF i < Len(list) THEN "stream"
    ELSE IF pending_archives # {} THEN "merge"
    ELSE "drain"

\* The test with its last operand negated.
NothingToRewrite_Negated ==
    /\ data_files_to_remove = {}
    /\ DOMAIN puffin_blobs_to_add = {}
    /\ puffin_blobs_to_remove # {}

\* The test of lines 355-357.
NothingToRewrite ==
    /\ data_files_to_remove = {}
    /\ DOMAIN puffin_blobs_to_add = {}
    /\ puffin_blobs_to_remove = {}

\* Lines 355-360: the fast exit.
Call ==
    /\ pc = "call"
    /\ IF NothingToRewrite
       THEN Finish(Ok)
       ELSE pc' = "load" /\ UNCHANGED result
    /\ UNCHANGED <<wrapper_vars, extract_vars, table_vars, request_vars, writer_vars, list_obj, new_objects,
                   manifest_list, next_manifest, manifest_list_writer, pending_archives>>

\* The load step with the existing manifest list deleted when the writer of
\* the new one is created.
LoadManifestList_DeleteFirst ==
    /\ pc = "load"
    /\ IF ~has_snapshot
       THEN /\ Finish(Panic("NoCurrentSnapshot"))
            /\ UNCHANGED <<manifest_list, next_manifest, list_obj>>
       ELSE \/ /\ ~list_obj.truncated
               /\ manifest_list' = list_obj.manifests
               /\ next_manifest' = 1
               /\ pc' = AfterManifest(0, list_obj.manifests)
               /\ list_obj' = TruncatedObject
               /\ UNCHANGED result
            \/ /\ Finish(Err("Storage"))
               /\ UNCHANGED <<manifest_list, next_manifest, list_obj>>
    /\ UNCHANGED <<wrapper_vars, extract_vars, table_vars, request_vars, writer_vars, new_objects,
                   manifest_list_writer, pending_archives>>

\* The load step with a table without snapshot read as an empty manifest list.
LoadManifestList_EmptyTable ==
    /\ pc = "load"
    /\ \/ /\ ~list_obj.truncated
          /\ manifest_list' = list_obj.manifests
          /\ next_manifest' = 1
          /\ pc' = AfterManifest(0, list_obj.manifests)
          /\ UNCHANGED result
       \/ Finish(Err("Storage")) /\ UNCHANGED <<manifest_list, next_manifest>>
    /\ UNCHANGED <<wrapper_vars, extract_vars, table_vars, request_vars, writer_vars, list_obj, new_objects,
                   manifest_list_writer, pending_archives>>

\* Lines 362-369: unwrap the current snapshot, load its manifest list and
\* create the writer of the new list on the same location.
LoadManifestList ==
    /\ pc = "load"
    /\ IF ~has_snapshot
       THEN Finish(Panic("NoCurrentSnapshot")) /\ UNCHANGED <<manifest_list, next_manifest>>
       ELSE \/ /\ ~list_obj.truncated
               /\ manifest_list' = list_obj.manifests
               /\ next_manifest' = 1
               /\ pc' = AfterManifest(0, list_obj.manifests)
               /\ UNCHANGED result
            \/ Finish(Err("Storage")) /\ UNCHANGED <<manifest_list, next_manifest>>
    /\ UNCHANGED <<wrapper_vars, extract_vars, table_vars, request_vars, writer_vars, list_obj, new_objects,
                   manifest_list_writer, pending_archives>>

\* The iteration with the file of a manifest writer created in storage when
\* the writer is.
ProcessManifest_EagerObjects ==
    /\ pc = "stream"
    /\ \/ /\ Finish(Err("Storage"))
          /\ UNCHANGED <<writer_vars, next_manifest, manifest_list_writer>>
       \/ LET cur_manifest_file == manifest_list[next_manifest]
              st == ProcessEntries(LoopState, cur_manifest_file.content,
                                   cur_manifest_file.entries)
          IN  IF cur_manifest_file.entries = <<>>
              THEN /\ Finish(Panic("EmptyManifest"))
                   /\ UNCHANGED <<writer_vars, next_manifest, manifest_list_writer>>
              ELSE IF IsUntouchedDataManifest(cur_manifest_file)
              THEN /\ manifest_list_writer' = Append(manifest_list_writer, cur_manifest_file)
                   /\ next_manifest' = next_manifest + 1
                   /\ pc' = AfterManifest(next_manifest, manifest_list)
                   /\ UNCHANGED <<writer_vars, result>>
              ELSE IF st.panic # ""
              THEN /\ Finish(Panic(st.panic))
                   /\ UNCHANGED <<writer_vars, next_manifest, manifest_list_writer>>
              ELSE /\ SetLoopState(st)
                   /\ next_manifest' = next_manifest + 1
                   /\ pc' = AfterManifest(next_manifest, manifest_list)
                   /\ UNCHANGED <<manifest_list_writer, result>>
    /\ new_objects' = new_objects \cup
                        {[path |-> <<"uuid", k>>, complete |-> FALSE] :
                            k \in (uuid_count + 1)..uuid_count'}
    /\ UNCHANGED <<wrapper_vars, extract_vars, table_vars, request_vars, list_obj, manifest_list,
                   pending_archives>>

\* Lines 420-506, one iteration: load the manifest and stream its entries.
ProcessManifest ==
    /\ pc = "stream"
    /\ \/ /\ Finish(Err("Storage"))
          /\ UNCHANGED <<writer_vars, next_manifest, manifest_list_writer>>
       \/ LET cur_manifest_file == manifest_list[next_manifest]
              st == ProcessEntries(LoopState, cur_manifest_file.content,
                                   cur_manifest_file.entries)
          IN  IF cur_manifest_file.entries = <<>>
              THEN /\ Finish(Panic("EmptyManifest"))
                   /\ UNCHANGED <<writer_vars, next_manifest, manifest_list_writer>>
              ELSE IF IsUntouchedDataManifest(cur_manifest_file)
              THEN /\ manifest_list_writer' = Append(manifest_list_writer, cur_manifest_file)
                   /\ next_manifest' = next_manifest + 1
                   /\ pc' = AfterManifest(next_manifest, manifest_list)
                   /\ UNCHANGED <<writer_vars, result>>
              ELSE IF st.panic # ""
              THEN /\ Finish(Panic(st.panic))
                   /\ UNCHANGED <<writer_vars, next_manifest, manifest_list_writer>>
              ELSE /\ SetLoopState(st)
                   /\ next_manifest' = next_manifest + 1
                   /\ pc' = AfterManifest(next_manifest, manifest_list)
                   /\ UNCHANGED <<manifest_list_writer, result>>
    /\ UNCHANGED <<wrapper_vars, extract_vars, table_vars, request_vars, list_obj, new_objects, manifest_list,
                   pending_archives>>

\* Lines 509-532, one iteration of the outer loop: the hash map hands out
\* any puffin file not visited yet.
MergeArchive ==
    /\ pc = "merge"
    /\ \E puffin_filepath \in pending_archives :
          LET st == ProcessBlobs(LoopState, puffin_filepath,
                                 puffin_blobs_to_add[puffin_filepath])
          IN  IF st.panic # ""
              THEN /\ Finish(Panic(st.panic))
                   /\ UNCHANGED <<writer_vars, pending_archives>>
              ELSE /\ SetLoopState(st)
                   /\ pending_archives' = pending_archives \ {puffin_filepath}
                   /\ pc' = IF pending_archives' # {} THEN "merge" ELSE "drain"
                   /\ UNCHANGED result
    /\ UNCHANGED <<wrapper_vars, extract_vars, table_vars, request_vars, list_obj, new_objects, manifest_list,
                   next_manifest, manifest_list_writer>>

\* Lines 535-541: the old deletion vectors that were not overwritten.
Drain ==
    /\ pc = "drain"
    /\ \E keys \in Orders(DOMAIN existing_deletion_vector_entries) :
          LET st == DrainEntries(LoopState, keys)
          IN  /\ SetLoopState(st)
              /\ pc' = FlushStage(st.data_w, st.index_w, st.dv_w)
    /\ UNCHANGED <<wrapper_vars, extract_vars, table_vars, request_vars, list_obj, new_objects, manifest_list,
                   next_manifest, manifest_list_writer, pending_archives, result>>

\* write_manifest_file on a writer: the manifest file is written and added to
\* the new list, or the write fails and may leave a partial object behind.
WriteManifestFile(writer, rest) ==
    \/ /\ new_objects' = new_objects \cup {[path |-> unwrap(writer).manifest_path,
                                            complete |-> TRUE]}
       /\ manifest_list_writer' = Append(manifest_list_writer, unwrap(writer))
       /\ pc' = rest
       /\ UNCHANGED result
    \/ /\ \E partial \in BOOLEAN :
             new_objects' = IF partial
                            THEN new_objects \cup {[path |-> unwrap(writer).manifest_path,
                                                    complete |-> FALSE]}
                            ELSE new_objects
       /\ Finish(Err("Storage"))
       /\ UNCHANGED manifest_list_writer

\* Lines 544-551.
FlushDataManifest ==
    /\ pc = "flush_data"
    /\ WriteManifestFile(data_file_manifest_writer,
                         FlushStage(None, file_index_manifest_writer,
                                    deletion_vector_manifest_writer))
    /\ data_file_manifest_writer' = None
    /\ UNCHANGED <<wrapper_vars, extract_vars, table_vars, request_vars, list_obj, manifest_list, next_manifest,
                   pending_archives, deletion_vector_manifest_writer,
                   file_index_manifest_writer, existing_deletion_vector_entries,
                   uuid_count>>

\* Lines 553-560.
FlushIndexManifest ==
    /\ pc = "flush_index"
    /\ WriteManifestFile(file_index_manifest_writer,
                         FlushStage(None, None, deletion_vector_manifest_writer))
    /\ file_index_manifest_writer' = None
    /\ UNCHANGED <<wrapper_vars, extract_vars, table_vars, request_vars, list_obj, manifest_list, next_manifest,
                   pending_archives, deletion_vector_manifest_writer,
                   data_file_manifest_writer, existing_deletion_vector_entries,
                   uuid_count>>

\* Lines 562-569.
FlushDeletionVectorManifest ==
    /\ pc = "flush_dv"
    /\ WriteManifestFile(deletion_vector_manifest_writer, "close")
    /\ deletion_vector_manifest_writer' = None
    /\ UNCHANGED <<wrapper_vars, extract_vars, table_vars, request_vars, list_obj, manifest_list, next_manifest,
                   pending_archives, data_file_manifest_writer,
                   file_index_manifest_writer, existing_deletion_vector_entries,
                   uuid_count>>

\* The close with the new list written to a location of its own.
Close_NewArtifact ==
    /\ pc = "close"
    /\ \/ /\ new_objects' = new_objects \cup {[path |-> <<"uuid", uuid_count + 1>>,
                                               complete |-> TRUE]}
          /\ Finish(Ok)
       \/ /\ \E partial \in BOOLEAN :
                new_objects' = IF partial
                               THEN new_objects \cup {[path |-> <<"uuid", uuid_count + 1>>,
                                                       complete |-> FALSE]}
                               ELSE new_objects
          /\ Finish(Err("Storage"))
    /\ UNCHANGED <<wrapper_vars, extract_vars, table_vars, request_vars, writer_vars, list_obj, manifest_list,
                   next_manifest, manifest_list_writer, pending_archives>>

\* Line 572: the new list is written to the location the writer was created
\* on (line 297), the location of the current manifest list. A failed write
\* leaves the old object or a truncated one.
Close ==
    /\ pc = "close"
    /\ \/ /\ list_obj' = ManifestListObject(manifest_list_writer)
          /\ Finish(Ok)
       \/ /\ \E partial \in BOOLEAN :
                list_obj' = IF partial THEN TruncatedObject ELSE list_obj
          /\ Finish(Err("Storage"))
    /\ UNCHANGED <<wrapper_vars, extract_vars, table_vars, request_vars, writer_vars, new_objects, manifest_list,
                   next_manifest, manifest_list_writer, pending_archives>>

\* ------------------------------------------------------------------------
\* get_puffin_metadata_and_close (lines 198-208)
\* ------------------------------------------------------------------------
\* The object behind the writer's Box<dyn FileWrite>: the footer it was given
\* and the calls of close it has seen.
FileWrite(state, footer, closes) == [state |-> state, footer |-> footer, closes |-> closes]

\* A PuffinWriter in memory: the values of its fields, in the order of layout.
PuffinWriter(writer, is_header_written, num_bytes_written, written_blobs_metadata, properties, footer_compression_codec, flags) ==
    <<writer, is_header_written, num_bytes_written, written_blobs_metadata,
      properties, footer_compression_codec, flags>>

\* The view with the metadata read from the field after it.
PuffinWriterProxy_Shifted(memory) ==
    [writer |-> memory[1],
     is_header_written |-> memory[2],
     num_bytes_written |-> memory[3],
     written_blobs_metadata |-> memory[5],
     properties |-> memory[4],
     footer_compression_codec |-> memory[6],
     flags |-> memory[7]]

\* transmute::<PuffinWriter, PuffinWriterProxy>: the same memory seen through
\* the fields PuffinWriterProxy declares (lines 50-58).
PuffinWriterProxy(memory) ==
    [writer |-> memory[1],
     is_header_written |-> memory[2],
     num_bytes_written |-> memory[3],
     written_blobs_metadata |-> memory[4],
     properties |-> memory[5],
     footer_compression_codec |-> memory[6],
     flags |-> memory[7]]

\* transmute::<PuffinWriterProxy, PuffinWriter>: back to the writer.
AsPuffinWriter(proxy) ==
    PuffinWriter(proxy.writer, proxy.is_header_written, proxy.num_bytes_written,
                 proxy.written_blobs_metadata, proxy.properties,
                 proxy.footer_compression_codec, proxy.flags)

\* Lines 201-205: view the writer as the proxy, clone the metadata, view it
\* as the writer again.
CopyMetadata ==
    /\ extract_pc = "copy"
    /\ LET puffin_writer_proxy == PuffinWriterProxy(puffin_writer)
       IN  /\ puffin_metadata' = puffin_writer_proxy.written_blobs_metadata
           /\ puffin_writer' = AsPuffinWriter(puffin_writer_proxy)
    /\ extract_pc' = "close"
    /\ UNCHANGED <<appended_blobs, extract_result>>
    /\ UNCHANGED <<wrapper_vars, table_vars, request_vars, writer_vars, list_obj, new_objects, pc,
                   result, manifest_list, next_manifest, manifest_list_writer,
                   pending_archives>>

\* Lines 206-207: close the writer, which writes the footer with the blobs it
\* recorded, and return the copy; a failed close is returned through `?`.
ClosePuffinWriter ==
    /\ extract_pc = "close"
    /\ \/ /\ puffin_writer' = [puffin_writer EXCEPT
                   ![1] = FileWrite("closed", puffin_writer[4], @.closes + 1)]
          /\ extract_result' = [status |-> "Ok", value |-> Some(puffin_metadata)]
       \/ /\ puffin_writer' = [puffin_writer EXCEPT
                   ![1] = FileWrite("failed", @.footer, @.closes + 1)]
          /\ extract_result' = [status |-> "Err", value |-> None]
    /\ extract_pc' = "done"
    /\ UNCHANGED <<appended_blobs, puffin_metadata>>
    /\ UNCHANGED <<wrapper_vars, table_vars, request_vars, writer_vars, list_obj, new_objects, pc,
                   result, manifest_list, next_manifest, manifest_list_writer,
                   pending_archives>>

NextExtract ==
    \/ CopyMetadata
    \/ ClosePuffinWriter

Next ==
    \/ Call
    \/ LoadManifestList
    \/ ProcessManifest
    \/ MergeArchive
    \/ Drain
    \/ FlushDataManifest
    \/ FlushIndexManifest
    \/ FlushDeletionVectorManifest
    \/ Close

\* ------------------------------------------------------------------------
\* FileSystemWrapper (storage/filesystem/accessor/filesystem_accessor_wrapper.rs)
\* ------------------------------------------------------------------------
\* A number of nanoseconds as Duration::as_nanos gives it, a u128:
\* hi * 2^64 + lo. A Duration holds up to 2^64 - 1 seconds, so hi can be
\* positive.
Nanos(hi, lo) == [hi |-> hi, lo |-> lo]

\* a <= b on such numbers.
NanosLe(a, b) == a.hi < b.hi \/ (a.hi = b.hi /\ a.lo <= b.lo)

\* `sampled_ns as u64`: the low 64 bits.
AsU64(ns) == ns.lo

\* Duration::from_nanos on a u64.
from_nanos(n) == Nanos(0, n)

\* The durations explored: below 2^64 nanoseconds and 2^64 or more.
Durations == {Nanos(hi, lo) : hi \in {0, 1}, lo \in 0..MaxLatency}

\* FileSystemWrapperOption.
FileSystemWrapperOption(min_latency, max_latency, injected_error, prob) ==
    [min_latency |-> min_latency, max_latency |-> max_latency,
     injected_error |-> injected_error, prob |-> prob]

\* FileSystemWrapperOption::validate: the two assertions hold.
validate(o) == NanosLe(o.min_latency, o.max_latency) /\ o.prob <= 100

\* The methods of BaseFileSystemAccess the wrapper implements.
Operations ==
    {"list_direct_subdirectories", "remove_directory", "object_exists", "get_object_size",
     "read_object", "read_object_as_string", "stream_read", "write_object",
     "create_unbuffered_stream_writer", "delete_object", "copy_from_local_to_remote",
     "copy_from_remote_to_local"}

\* The operations in flight on one wrapper.
CallIds == DOMAIN calls

\* An operation the caller is about to call. `latency` is the Duration it
\* sleeps, `remaining` what is left of the sleep, `waited` the time that
\* passed between the call and the end of perform_wrapper_function, `result`
\* what it returned.
IdleCall(operation) ==
    [pc |-> "idle", operation |-> operation, latency |-> None, remaining |-> 0, waited |-> 0,
     result |-> [status |-> "Running"]]

\* What the inner accessor can return: a value or an error of its own.
InnerResults == {[status |-> "Ok", value |-> "value"], [status |-> "Err", error |-> "Inner"]}

\* An operation of the wrapper is called.
Invoke(o) ==
    /\ calls[o].pc = "idle"
    /\ calls' = [calls EXCEPT ![o].pc = "lock_duration"]
    /\ UNCHANGED <<option, rng, inner>>

\* Line 68: self.rng.lock().await returns once the mutex is free.
LockForDuration(o) ==
    /\ calls[o].pc = "lock_duration"
    /\ rng = 0
    /\ rng' = o
    /\ calls' = [calls EXCEPT ![o].pc = "draw_duration"]
    /\ UNCHANGED <<option, inner>>

\* The draw that keeps the guard of the mutex.
get_random_duration_KeepGuard(o) ==
    /\ calls[o].pc = "draw_duration"
    /\ \E sampled_ns \in {ns \in Durations : /\ NanosLe(option.min_latency, ns)
                                              /\ NanosLe(ns, option.max_latency)} :
          calls' = [calls EXCEPT ![o].pc = "sleep",
                                 ![o].latency = Some(from_nanos(AsU64(sampled_ns))),
                                 ![o].remaining = AsU64(sampled_ns)]
    /\ UNCHANGED <<option, inner, rng>>

\* Lines 69-73: the latency is drawn in min_ns..=max_ns, the guard is dropped
\* at the return, and the caller (line 91) starts to sleep.
get_random_duration(o) ==
    /\ calls[o].pc = "draw_duration"
    /\ \E sampled_ns \in {ns \in Durations : /\ NanosLe(option.min_latency, ns)
                                              /\ NanosLe(ns, option.max_latency)} :
          calls' = [calls EXCEPT ![o].pc = "sleep",
                                 ![o].latency = Some(from_nanos(AsU64(sampled_ns))),
                                 ![o].remaining = AsU64(sampled_ns)]
    /\ rng' = 0
    /\ UNCHANGED <<option, inner>>

\* An operation has a step to take that takes no time: a lock that is free,
\* a draw, the end of a sleep, the call of the inner accessor.
Instant(o) ==
    \/ calls[o].pc \in {"lock_duration", "lock_error"} /\ rng = 0
    \/ calls[o].pc \in {"draw_duration", "draw_error", "delegate"}
    \/ calls[o].pc = "sleep" /\ calls[o].remaining = 0

\* The operation is between its call and the end of perform_wrapper_function.
InWrapperFunction(o) ==
    calls[o].pc \in {"lock_duration", "draw_duration", "sleep", "lock_error", "draw_error"}

\* Time passes by one unit for every operation that sleeps (line 91) or
\* waits for the mutex; the steps that take no time come first. The time an
\* operation is seen to wait is followed up to one unit past MaxLatency.
Tick ==
    /\ \A o \in CallIds : ~Instant(o)
    /\ \E o \in CallIds : InWrapperFunction(o)
    /\ \A o \in CallIds : InWrapperFunction(o) => calls[o].waited <= MaxLatency
    /\ calls' = [o \in CallIds |->
                    IF InWrapperFunction(o)
                    THEN [calls[o] EXCEPT !.waited = @ + 1,
                                          !.remaining = IF calls[o].pc = "sleep" THEN @ - 1 ELSE @]
                    ELSE calls[o]]
    /\ UNCHANGED <<option, rng, inner>>

\* Line 91 returns; line 77: without an injected error no draw is made.
WakeUp(o) ==
    /\ calls[o].pc = "sleep"
    /\ calls[o].remaining = 0
    /\ calls' = [calls EXCEPT ![o].pc = IF option.injected_error = None THEN "delegate"
                                        ELSE "lock_error"]
    /\ UNCHANGED <<option, rng, inner>>

\* Line 78.
LockForError(o) ==
    /\ calls[o].pc = "lock_error"
    /\ rng = 0
    /\ rng' = o
    /\ calls' = [calls EXCEPT ![o].pc = "draw_error"]
    /\ UNCHANGED <<option, inner>>

\* Lines 79-85: the draw in 0..=100 and the test against prob; the error
\* goes through the `?` of perform_wrapper_function and of the operation.
get_random_error(o) ==
    /\ calls[o].pc = "draw_error"
    /\ \E injected \in {rand_val <= option.prob : rand_val \in 0..100} :
          calls' = IF injected
                   THEN [calls EXCEPT ![o].pc = "done",
                                      ![o].result = [status |-> "Err",
                                                     error |-> unwrap(option.injected_error)]]
                   ELSE [calls EXCEPT ![o].pc = "delegate"]
    /\ rng' = 0
    /\ UNCHANGED <<option, inner>>

\* The second line of every operation: the inner accessor is called.
Delegate(o) ==
    /\ calls[o].pc = "delegate"
    /\ inner' = inner \cup {[by |-> o, operation |-> calls[o].operation, returned |-> None]}
    /\ calls' = [calls EXCEPT ![o].pc = "inner"]
    /\ UNCHANGED <<option, rng>>

\* The inner accessor returns and the operation returns what it returned.
InnerReturns(o) ==
    /\ calls[o].pc = "inner"
    /\ \E r \in InnerResults :
          /\ inner' = {IF c.by = o THEN [c EXCEPT !.returned = Some(r)] ELSE c : c \in inner}
          /\ calls' = [calls EXCEPT ![o].pc = "done", ![o].result = r]
    /\ UNCHANGED <<option, rng>>

\* The steps of operation `o` after its call.
Step(o) ==
    \/ LockForDuration(o)
    \/ get_random_duration(o)
    \/ WakeUp(o)
    \/ LockForError(o)
    \/ get_random_error(o)
    \/ Delegate(o)
    \/ InnerReturns(o)

RewriteIdle ==
    UNCHANGED <<extract_vars, table_vars, request_vars, writer_vars, list_obj, new_objects, pc,
                result, manifest_list, next_manifest, manifest_list_writer, pending_archives>>

NextWrapper ==
    \/ (\E o \in CallIds : Invoke(o)) /\ RewriteIdle
    \/ (\E o \in CallIds : LockForDuration(o)) /\ RewriteIdle
    \/ (\E o \in CallIds : get_random_duration(o)) /\ RewriteIdle
    \/ Tick /\ RewriteIdle
    \/ (\E o \in CallIds : WakeUp(o)) /\ RewriteIdle
    \/ (\E o \in CallIds : LockForError(o)) /\ RewriteIdle
    \/ (\E o \in CallIds : get_random_error(o)) /\ RewriteIdle
    \/ (\E o \in CallIds : Delegate(o)) /\ RewriteIdle
    \/ (\E o \in CallIds : InnerReturns(o)) /\ RewriteIdle

\* No wrapper is in use.
NoWrapper ==
    /\ option = FileSystemWrapperOption(Nanos(0, 0), Nanos(0, 0), None, 0)
    /\ rng = 0
    /\ inner = {}
    /\ calls = <<>>

\* ------------------------------------------------------------------------
\* The tables and requests explored
\* ------------------------------------------------------------------------
DataFilePaths == {"a.parquet", "b.parquet"}
PuffinFilePaths == {"p.puffin", "q.puffin"}

ParquetEntry(path, seq) ==
    ManifestEntry(DataFileProxy("Data", path, "Parquet", 100, 4096, None, None, None), seq)

IndexEntry(path, seq) ==
    ManifestEntry(DataFileProxy("Data", path, "Puffin", 100, 0, None, None, None), seq)

DeletionVectorEntry(path, ref, seq) ==
    ManifestEntry(DataFileProxy("PositionDeletes", path, "Puffin", 2, 0, Some(ref),
                                Some(AsI64(U64(0, 4))), Some(AsI64(U64(0, 40)))), seq)

AvroEntry(path, seq) ==
    ManifestEntry(DataFileProxy("Data", path, "Avro", 100, 4096, None, None, None), seq)

\* The entries the existing manifests are made of: two data files, a file
\* index and two deletion vectors of the same data file.
ExistingEntries ==
    {ParquetEntry("a.parquet", 1), ParquetEntry("b.parquet", 2),
     IndexEntry("p.puffin", 1),
     DeletionVectorEntry("p.puffin", "a.parquet", 2),
     DeletionVectorEntry("q.puffin", "a.parquet", 1)}

\* The same with an entry whose format is neither Parquet nor Puffin.
CorruptEntries ==
    {ParquetEntry("a.parquet", 1), IndexEntry("p.puffin", 1),
     DeletionVectorEntry("p.puffin", "a.parquet", 2), AvroEntry("a.parquet", 1)}

DeletionVectorBlob(ref, card) ==
    BlobMetadata(DELETION_VECTOR_V1, ref, card, U64(0, 128), U64(0, 64), 3)

IndexBlob(card) ==
    BlobMetadata(MOONCAKE_HASH_INDEX_V1, None, card, U64(0, 4), U64(0, 16), 4)

\* The blobs the requests are made of: well-formed ones,
NewBlobs ==
    {DeletionVectorBlob(Some("a.parquet"), Some(<<"1", "0">>)),
     DeletionVectorBlob(Some("b.parquet"), Some(<<"+", "7">>)),
     IndexBlob(Some(<<"5">>))}

\* and blobs without a required property, with a cardinality that is not a
\* number, or of a type that is neither of the two.
MalformedBlobs ==
    {DeletionVectorBlob(None, Some(<<"1", "0">>)),
     DeletionVectorBlob(Some("a.parquet"), None),
     DeletionVectorBlob(Some("a.parquet"), Some(<<"-", "1">>)),
     IndexBlob(None),
     IndexBlob(Some(<<"5", "x">>)),
     BlobMetadata("unknown-v1", None, None, U64(0, 4), U64(0, 16), 3)}

RemovalSets == {{}, {"a.parquet"}}
BlobRemovalSets == {{}, {"p.puffin"}}

RECURSIVE SeqsOfLen(_, _)
SeqsOfLen(S, n) ==
    IF n = 0 THEN {<<>>} ELSE {<<x>> \o s : x \in S, s \in SeqsOfLen(S, n - 1)}

\* SeqsOfLen(S, 0), ..., SeqsOfLen(S, n) as a sequence.
RECURSIVE SeqsByLen(_, _)
SeqsByLen(S, n) == IF n < 0 THEN <<>> ELSE Append(SeqsByLen(S, n - 1), SeqsOfLen(S, n))

\* The sequences of at most `n` different elements of `S`.
RECURSIVE DistinctSeqsOfLen(_, _)
DistinctSeqsOfLen(S, n) ==
    IF n = 0 THEN {<<>>}
    ELSE UNION {{<<x>> \o s : s \in DistinctSeqsOfLen(S \ {x}, n - 1)} : x \in S}

\* What a manifest of `len` entries takes of MaxItems: its entries, and one
\* when it has none.
ManifestSize(len) == IF len = 0 THEN 1 ELSE len

\* The shapes of the manifest lists of at most `m` manifests of size `t`
\* together: the content and the number of entries of each manifest.
RECURSIVE Shapes(_, _)
Shapes(m, t) ==
    IF m = 0 \/ t = 0 THEN {<<>>}
    ELSE {<<>>} \cup UNION {
             {<<[content |-> content, len |-> len]>> \o rest :
                  content \in {"Data", "Deletes"},
                  rest \in Shapes(m - 1, t - ManifestSize(len))} :
             len \in 0..t}

RECURSIVE NumEntries(_)
NumEntries(shape) == IF shape = <<>> THEN 0 ELSE Head(shape).len + NumEntries(Tail(shape))

RECURSIVE ShapeSize(_)
ShapeSize(shape) ==
    IF shape = <<>> THEN 0 ELSE ManifestSize(Head(shape).len) + ShapeSize(Tail(shape))

\* The manifest list of shape `shape` that holds `entries` in this order;
\* its first manifest is number `i`.
RECURSIVE BuildList(_, _, _)
BuildList(shape, entries, i) ==
    IF shape = <<>> THEN <<>>
    ELSE <<ManifestFile(<<"existing", i>>, Head(shape).content,
                        SubSeq(entries, 1, Head(shape).len))>>
         \o BuildList(Tail(shape), SubSeq(entries, Head(shape).len + 1, Len(entries)), i + 1)

\* The number of blobs of a shape of puffin_blobs_to_add.
ShapeTotal(shape) ==
    LET RECURSIVE Sum(_)
        Sum(D) == IF D = {} THEN 0
                  ELSE LET k == CHOOSE k \in D : TRUE IN shape[k] + Sum(D \ {k})
    IN  Sum(DOMAIN shape)

\* The shapes of the values of puffin_blobs_to_add with at most `n` blobs
\* together: the puffin files and the number of blobs of each.
BlobShapes(n) ==
    UNION {{shape \in [D -> 0..n] : ShapeTotal(shape) <= n} : D \in SUBSET PuffinFilePaths}

\* The map of shape `shape` that holds `blobs` in this order.
RECURSIVE BuildMap(_, _)
BuildMap(shape, blobs) ==
    IF DOMAIN shape = {} THEN <<>>
    ELSE LET f == CHOOSE f \in DOMAIN shape : TRUE
             rest == BuildMap([k \in DOMAIN shape \ {f} |-> shape[k]],
                              SubSeq(blobs, shape[f] + 1, Len(blobs)))
         IN  [k \in DOMAIN shape |-> IF k = f THEN SubSeq(blobs, 1, shape[f]) ELSE rest[k]]

\* The state at the call: a table whose manifest list is made of entries of
\* `E`, each listed once, and a request that removes one of `removals` and
\* adds blobs of `B`, given as blobs == SeqsByLen(B, MaxItems); the size of
\* the table and the number of blobs are at most MaxItems together.
\* No puffin writer is being closed.
NoExtraction ==
    /\ puffin_writer = <<>>
    /\ appended_blobs = <<>>
    /\ puffin_metadata = <<>>
    /\ extract_pc = "idle"
    /\ extract_result = [status |-> "Running", value |-> None]

\* No rewrite is invoked.
NoRewrite ==
    /\ has_snapshot = FALSE
    /\ list_obj = ManifestListObject(<<>>)
    /\ initial_list = list_obj
    /\ new_objects = {}
    /\ data_files_to_remove = {}
    /\ puffin_blobs_to_add = <<>>
    /\ puffin_blobs_to_remove = {}
    /\ pc = "idle"
    /\ result = Running
    /\ manifest_list = <<>>
    /\ next_manifest = 0
    /\ manifest_list_writer = <<>>
    /\ data_file_manifest_writer = None
    /\ deletion_vector_manifest_writer = None
    /\ file_index_manifest_writer = None
    /\ existing_deletion_vector_entries = <<>>
    /\ pending_archives = {}
    /\ uuid_count = 0

InitFrom(E, blobs, removals) ==
    /\ has_snapshot \in BOOLEAN
    /\ \E shape \in IF has_snapshot THEN Shapes(MaxManifests, MaxItems) ELSE {<<>>} :
          /\ \E entries \in DistinctSeqsOfLen(E, NumEntries(shape)) :
                list_obj = ManifestListObject(BuildList(shape, entries, 1))
          /\ \E blob_shape \in BlobShapes(MaxItems - ShapeSize(shape)) :
                \E added \in blobs[ShapeTotal(blob_shape) + 1] :
                   puffin_blobs_to_add = BuildMap(blob_shape, added)
    /\ initial_list = list_obj
    /\ new_objects = {}
    /\ data_files_to_remove \in removals
    /\ puffin_blobs_to_remove \in BlobRemovalSets
    /\ pc = "call"
    /\ result = Running
    /\ manifest_list = <<>>
    /\ next_manifest = 0
    /\ manifest_list_writer = <<>>
    /\ data_file_manifest_writer = None
    /\ deletion_vector_manifest_writer = None
    /\ file_index_manifest_writer = None
    /\ existing_deletion_vector_entries = <<>>
    /\ pending_archives = DOMAIN puffin_blobs_to_add
    /\ uuid_count = 0
    /\ NoExtraction
    /\ NoWrapper

\* Tables of data files, file indices and deletion vectors; well-formed blobs.
Additions == SeqsByLen(NewBlobs, MaxItems)
Init == InitFrom(ExistingEntries, Additions, RemovalSets)
Spec == Init /\ [][Next]_vars

\* Tables with an entry of a foreign format.
FewAdditions ==
    SeqsByLen({DeletionVectorBlob(Some("a.parquet"), Some(<<"1", "0">>)),
               IndexBlob(Some(<<"5">>))}, MaxItems)
InitCorrupt == InitFrom(CorruptEntries, FewAdditions, RemovalSets)
SpecCorrupt == InitCorrupt /\ [][Next]_vars

\* Requests with malformed blobs.
FewEntries ==
    {ParquetEntry("a.parquet", 1), IndexEntry("p.puffin", 1),
     DeletionVectorEntry("p.puffin", "a.parquet", 2)}
MalformedAdditions ==
    SeqsByLen(MalformedBlobs \cup {DeletionVectorBlob(Some("a.parquet"), Some(<<"1", "0">>))},
              MaxItems)
InitMalformed == InitFrom(FewEntries, MalformedAdditions, {{"b.parquet"}})
SpecMalformed == InitMalformed /\ [][Next]_vars

\* The rewrite as the executor runs it: the future is polled until it returns,
\* every storage operation it awaits completes or fails.
LiveEntries ==
    {ParquetEntry("a.parquet", 1), DeletionVectorEntry("p.puffin", "a.parquet", 2)}
LiveAdditions == SeqsByLen({IndexBlob(Some(<<"5">>))}, MaxItems)
InitLive == InitFrom(LiveEntries, LiveAdditions, {{"b.parquet"}})
SpecLive == InitLive /\ [][Next]_vars /\ WF_vars(Next)

\* Requests with blobs of a type that is neither of the two, well formed
\* otherwise.
ForeignBlobs ==
    {BlobMetadata("unknown-v1", Some("a.parquet"), Some(<<"1", "0">>), U64(0, 128), U64(0, 64), 5),
     BlobMetadata("unknown-v1", None, Some(<<"5">>), U64(0, 4), U64(0, 16), 5),
     DeletionVectorBlob(Some("a.parquet"), Some(<<"1", "0">>)),
     IndexBlob(Some(<<"5">>))}
ForeignAdditions == SeqsByLen(ForeignBlobs, MaxItems)
InitForeign == InitFrom(FewEntries, ForeignAdditions, {{"b.parquet"}})
SpecForeign == InitForeign /\ [][Next]_vars

\* Tables in which no data file has two deletion vectors: two data files, a
\* file index, and a deletion vector that is stored in the puffin file of the
\* index; well-formed blobs.
SoundEntries ==
    {ParquetEntry("a.parquet", 1), ParquetEntry("b.parquet", 2), IndexEntry("p.puffin", 1),
     DeletionVectorEntry("p.puffin", "a.parquet", 2)}
InitSound == InitFrom(SoundEntries, Additions, RemovalSets)
SpecSound == InitSound /\ [][Next]_vars

\* Requests with deletion vector blobs whose offset or length is 2^63 or
\* more (hi = 1), next to one below.
WideBlobs ==
    {BlobMetadata(DELETION_VECTOR_V1, Some("a.parquet"), Some(<<"1", "0">>), U64(1, 0), U64(0, 64), 3),
     BlobMetadata(DELETION_VECTOR_V1, Some("a.parquet"), Some(<<"1", "0">>), U64(0, 128), U64(1, 5), 3),
     DeletionVectorBlob(Some("a.parquet"), Some(<<"1", "0">>))}
WideAdditions == SeqsByLen(WideBlobs, MaxItems)
InitWide == InitFrom(FewEntries, WideAdditions, {{"b.parquet"}})
SpecWide == InitWide /\ [][Next]_vars

\* A puffin writer to which blobs were added, as PuffinWriter::add leaves it:
\* the header is written with the first blob, the file is open.
InitExtract ==
    /\ NoRewrite
    /\ \E n \in 0..MaxItems :
          \E blobs \in Additions[n + 1] :
             /\ appended_blobs = blobs
             /\ puffin_writer = PuffinWriter(FileWrite("open", <<>>, 0), blobs # <<>>,
                                             Len(blobs), blobs, <<>>, "None", {})
    /\ puffin_metadata = <<>>
    /\ extract_pc = "copy"
    /\ extract_result = [status |-> "Running", value |-> None]
    /\ NoWrapper
SpecExtract == InitExtract /\ [][NextExtract]_vars

\* A wrapper as FileSystemWrapper::new leaves it, the option validated, the
\* mutex free, nothing sent to the inner accessor, and the operations
\* `operations` about to be called on it, `n` at a time.
Probabilities == {0, 50, 100}
InjectedErrors == {None, Some("Injected")}
InitWrapperFrom(min_latencies, max_latencies, errors, probabilities, operations, n) ==
    /\ NoRewrite
    /\ NoExtraction
    /\ \E min_latency \in min_latencies, max_latency \in max_latencies :
          \E injected_error \in errors, prob \in probabilities :
             /\ option = FileSystemWrapperOption(min_latency, max_latency, injected_error, prob)
             /\ validate(option)
    /\ rng = 0
    /\ inner = {}
    /\ calls \in [1..n -> {IdleCall(operation) : operation \in operations}]

\* One operation at a time, every operation, every option.
InitWrapper == InitWrapperFrom(Durations, Durations, InjectedErrors, Probabilities, Operations, 1)
SpecWrapper == InitWrapper /\ [][NextWrapper]_vars

\* Operations in flight together: a read and a write.
FewDurations == {Nanos(0, 0), Nanos(0, MaxLatency)}
FewOperations == {"read_object", "write_object"}
InitConcurrent ==
    InitWrapperFrom(FewDurations, FewDurations, InjectedErrors, {50}, FewOperations, MaxCalls)
SpecConcurrent == InitConcurrent /\ [][NextWrapper]_vars

\* The operations as the executor runs them: every task that can take a step
\* is polled, the mutex is handed over, time passes and the inner accessor
\* returns.
InitWrapperLive ==
    InitWrapperFrom({Nanos(0, 0)}, {Nanos(0, MaxLatency)}, {Some("Injected")}, {50},
                    {"write_object"}, MaxCalls)
SpecWrapperLive ==
    /\ InitWrapperLive
    /\ [][NextWrapper]_vars
    /\ WF_vars(Tick /\ RewriteIdle)
    /\ \A o \in 1..MaxCalls : WF_vars(Step(o) /\ RewriteIdle)

\* ------------------------------------------------------------------------
\* Vocabulary of the properties
\* ------------------------------------------------------------------------
RequestIsEmpty ==
    /\ data_files_to_remove = {}
    /\ puffin_blobs_to_remove = {}
    /\ \A puffin_filepath \in PuffinFilePaths : puffin_filepath \notin DOMAIN puffin_blobs_to_add

Succeeded == pc = "done" /\ result.status = "Ok"
Failed == pc = "done" /\ result.status \in {"Err", "Panic"}

\* The manifest list before the call and the one the snapshot points to now.
InitialManifests == initial_list.manifests
OutputManifests == list_obj.manifests

\* The positions <<manifest, entry>> of a manifest list and what is there.
Positions(list) ==
    UNION {{<<i, j>> : j \in 1..Len(list[i].entries)} : i \in 1..Len(list)}
EntryAt(list, pos) == list[pos[1]].entries[pos[2]]
FileAt(list, pos) == EntryAt(list, pos).data_file
ContentAt(list, pos) == list[pos[1]].content

\* The semantic kind of the entry at a position, by the table of the
\* documentation: manifest content and entry format.
PrimaryDataAt(list, pos) ==
    ContentAt(list, pos) = "Data" /\ FileAt(list, pos).file_format = "Parquet"
SecondaryIndexAt(list, pos) ==
    ContentAt(list, pos) = "Data" /\ FileAt(list, pos).file_format = "Puffin"
DeletionVectorAt(list, pos) ==
    ContentAt(list, pos) = "Deletes" /\ FileAt(list, pos).file_format = "Puffin"

\* The positions of the deletion vectors of data file `path`.
DeletionVectorsOf(list, path) ==
    {pos \in Positions(list) :
        DeletionVectorAt(list, pos) /\ FileAt(list, pos).referenced_data_file = <<path>>}

\* The new blobs of the request, as <<puffin file, index>>, and the deletion
\* vector blobs among them that name data file `path`.
RequestedBlobs ==
    UNION {{<<f, i>> : i \in 1..Len(puffin_blobs_to_add[f])} : f \in DOMAIN puffin_blobs_to_add}
BlobAt(b) == puffin_blobs_to_add[b[1]][b[2]]
RequestedDeletionVectorsOf(path) ==
    {b \in RequestedBlobs :
        /\ BlobAt(b).type = "deletion-vector-v1"
        /\ BlobAt(b).properties.referenced_data_file = <<path>>}

\* ------------------------------------------------------------------------
\* Properties
\* ------------------------------------------------------------------------

\* The manifest list before the call is one a correct writer produced: no
\* empty manifest, only the three classified kinds of entry, every deletion
\* vector names a primary-data entry of the list, at most one per data file.
InitialListIsSound ==
    /\ \A i \in 1..Len(InitialManifests) : InitialManifests[i].entries # <<>>
    /\ \A pos \in Positions(InitialManifests) :
          /\ \/ PrimaryDataAt(InitialManifests, pos)
             \/ SecondaryIndexAt(InitialManifests, pos)
             \/ DeletionVectorAt(InitialManifests, pos)
          /\ DeletionVectorAt(InitialManifests, pos) =>
                \E d \in Positions(InitialManifests) :
                   /\ PrimaryDataAt(InitialManifests, d)
                   /\ FileAt(InitialManifests, pos).referenced_data_file
                          = <<FileAt(InitialManifests, d).file_path>>
    /\ \A D \in DataFilePaths : Cardinality(DeletionVectorsOf(InitialManifests, D)) <= 1

\* Every new deletion vector blob names a primary-data entry of the manifest
\* list before the call.
RequestReferencesTableFiles ==
    \A b \in RequestedBlobs :
        BlobAt(b).type = "deletion-vector-v1" =>
            \E d \in Positions(InitialManifests) :
               /\ PrimaryDataAt(InitialManifests, d)
               /\ BlobAt(b).properties.referenced_data_file
                      = <<FileAt(InitialManifests, d).file_path>>

\* C1 (at most one deletion vector per data file): after a successful
\* rewrite of a sound manifest list, with new blobs that name data files of
\* the table, no two deletion vector entries of the output reference the
\* same data file, also when the request carries several new deletion
\* vector blobs for one file.
C1_OneDeletionVectorPerFile ==
    (Succeeded /\ InitialListIsSound /\ RequestReferencesTableFiles) =>
        \A D \in DataFilePaths : Cardinality(DeletionVectorsOf(OutputManifests, D)) <= 1

\* C2 (no dangling deletion vector): after a successful rewrite of a sound
\* manifest list, with new blobs that name data files of the table, every
\* deletion vector entry of the output references a primary-data entry of
\* the output.
C2_NoDanglingDeletionVector ==
    (Succeeded /\ InitialListIsSound /\ RequestReferencesTableFiles) =>
        \A pos \in Positions(OutputManifests) :
            DeletionVectorAt(OutputManifests, pos) =>
                \E d \in Positions(OutputManifests) :
                   /\ PrimaryDataAt(OutputManifests, d)
                   /\ FileAt(OutputManifests, pos).referenced_data_file
                          = <<FileAt(OutputManifests, d).file_path>>

\* C3 (removal law): after a successful rewrite of a sound manifest list,
\* with new blobs that name data files of the table, the output holds, for
\* every path of data_files_to_remove, no primary-data entry with that path
\* and no deletion vector, old or new, referencing it.
C3_RemovalLaw ==
    (Succeeded /\ InitialListIsSound /\ RequestReferencesTableFiles) =>
        \A path \in data_files_to_remove :
            /\ \A pos \in Positions(OutputManifests) :
                  PrimaryDataAt(OutputManifests, pos) =>
                      FileAt(OutputManifests, pos).file_path # path
            /\ DeletionVectorsOf(OutputManifests, path) = {}

\* C4 (supersede law): when the request adds exactly one deletion vector
\* blob for data file D and the manifest list had a deletion vector for D,
\* a successful rewrite leaves exactly one deletion vector for D, the one
\* built from the blob, and none of the old ones.
C4_Supersede ==
    \A D \in DataFilePaths :
        (/\ Succeeded
         /\ Cardinality(RequestedDeletionVectorsOf(D)) = 1
         /\ DeletionVectorsOf(InitialManifests, D) # {})
        => LET b == CHOOSE b \in RequestedDeletionVectorsOf(D) : TRUE
               now == DeletionVectorsOf(OutputManifests, D)
           IN  /\ Cardinality(now) = 1
               /\ \A pos \in now :
                     /\ FileAt(OutputManifests, pos).file_path = b[1]
                     /\ FileAt(OutputManifests, pos).content_offset
                            = <<[sign |-> 0, lo |-> BlobAt(b).offset.lo]>>
                     /\ EntryAt(OutputManifests, pos).sequence_number
                            = BlobAt(b).sequence_number
                     /\ \A old \in DeletionVectorsOf(InitialManifests, D) :
                            EntryAt(OutputManifests, pos) # EntryAt(InitialManifests, old)

\* A rewrite succeeded that superseded an old deletion vector.
C4_Witness ==
    /\ Succeeded
    /\ Cardinality(RequestedDeletionVectorsOf("a.parquet")) = 1
    /\ DeletionVectorsOf(InitialManifests, "a.parquet") # {}
    /\ DeletionVectorsOf(OutputManifests, "a.parquet") # {}

C7_FastExit ==
    RequestIsEmpty =>
        /\ pc \in {"call", "done"}
        /\ pc = "done" => result.status = "Ok" /\ result.at = "call"
        /\ list_obj = initial_list
        /\ new_objects = {}
        /\ next_manifest = 0
        /\ manifest_list = <<>>
        /\ manifest_list_writer = <<>>
        /\ uuid_count = 0

\* The fast exit was taken on a table with manifests.
C7_Witness ==
    /\ RequestIsEmpty
    /\ Succeeded
    /\ InitialManifests # <<>>


\* Data file D has two deletion vectors in the manifest list before the call.
InitialDuplicate(D) == Cardinality(DeletionVectorsOf(InitialManifests, D)) >= 2

\* C8 as stated (duplicate detection): for every manifest list that holds two
\* deletion vectors for the same data file the rewrite fails.
C8_DuplicatesAlwaysFail ==
    (pc = "done" /\ \E D \in DataFilePaths : InitialDuplicate(D)) =>
        result.status # "Ok"

\* C8 (amended): when the request is not empty and the manifest list holds
\* two deletion vectors for a data file that is not in data_files_to_remove,
\* the rewrite does not succeed: it ends while the manifests are loaded and
\* streamed, with the manifest list untouched and nothing written, and the
\* duplicate is reported by the panic of an assertion, never by an error value.
C8_DuplicatesFailUnlessRemoved ==
    /\ \A D \in DataFilePaths :
          (pc = "done" /\ InitialDuplicate(D) /\ D \notin data_files_to_remove
                /\ ~RequestIsEmpty) =>
             /\ Failed
             /\ result.at \in {"load", "stream"}
             /\ list_obj = initial_list
             /\ new_objects = {}
    /\ (pc = "done" /\ result.kind = "DuplicateDeletionVector") =>
          /\ result.status = "Panic"
          /\ result.at = "stream"
          /\ \E D \in DataFilePaths : InitialDuplicate(D) /\ D \notin data_files_to_remove

\* The rewrite ended on the duplicate assertion.
C8_Witness ==
    /\ pc = "done"
    /\ result.kind = "DuplicateDeletionVector"
    /\ InitialDuplicate("a.parquet")
    /\ list_obj = initial_list

\* The cardinalities of the well-formed blobs.
WellFormedCardinalities == {<<<<"1", "0">>>>, <<<<"+", "7">>>>, <<<<"5">>>>}

\* A blob of a known type without its referenced data file, or without a
\* cardinality that is a number.
MalformedBlob(blob) ==
    \/ /\ blob.type = "deletion-vector-v1"
       /\ \/ blob.properties.referenced_data_file = <<>>
          \/ blob.properties.cardinality \notin WellFormedCardinalities
    \/ /\ blob.type = "mooncake-hash-index-v1"
       /\ blob.properties.cardinality \notin WellFormedCardinalities
HasMalformedBlob == \E b \in RequestedBlobs : MalformedBlob(BlobAt(b))
HasUnknownBlobType ==
    \E b \in RequestedBlobs :
        BlobAt(b).type \notin {"deletion-vector-v1", "mooncake-hash-index-v1"}

\* C9 as stated (malformed blob): a new blob without its referenced data file
\* or a numeric cardinality makes the rewrite fail with the MalformedBlob error
\* value and leaves the manifest list untouched.
C9_MalformedBlobIsAnErrorValue ==
    (pc = "done" /\ HasMalformedBlob /\ ~HasUnknownBlobType /\ result.at = "merge") =>
        /\ result.status = "Err"
        /\ result.kind = "MalformedBlob"
        /\ list_obj = initial_list

\* C9 (amended): with a malformed new blob the rewrite never succeeds and
\* ends before any manifest file is written, the manifest list untouched;
\* when the blobs are reached the call panics on the unwrap of the missing
\* property or of the parse, it returns no error value.
C9_MalformedBlobPanics ==
    (pc = "done" /\ HasMalformedBlob) =>
        /\ Failed
        /\ result.at \in {"load", "stream", "merge"}
        /\ list_obj = initial_list
        /\ new_objects = {}
        /\ result.at = "merge" =>
              /\ result.status = "Panic"
              /\ ~HasUnknownBlobType => result.kind = "MalformedBlob"

\* The call panicked on a malformed blob after streaming a table's manifests.
C9_Witness ==
    /\ pc = "done"
    /\ HasMalformedBlob
    /\ result.status = "Panic"
    /\ result.kind = "MalformedBlob"
    /\ result.at = "merge"
    /\ InitialManifests # <<>>

\* The pairs of manifest content and entry format the rewrite classifies.
ClassifiedPair(content, format) ==
    \/ content = "Data" /\ format \in {"Parquet", "Puffin"}
    \/ content = "Deletes" /\ format = "Puffin"

\* The manifest is streamed entry by entry, not carried over as it is.
Streamed(manifest) ==
    ~ (/\ manifest.content = "Data"
       /\ manifest.entries # <<>>
       /\ manifest.entries[1].data_file.file_format = "Parquet"
       /\ data_files_to_remove = {})

HasUnclassifiedEntry(manifest) ==
    \E j \in 1..Len(manifest.entries) :
        ~ClassifiedPair(manifest.content, manifest.entries[j].data_file.file_format)

EntriesOf(writer) == IF writer = <<>> THEN <<>> ELSE writer[1].entries

\* C10 (classification): an entry is classified by the pair of its manifest's
\* content and its own format: (Data, Parquet) goes to the data manifest,
\* (Data, Puffin) to the index manifest, (Deletes, Puffin) to the deletion
\* vectors; any other pair in a streamed manifest ends the pass with the
\* fatal InconsistentManifest failure and the entry is never written.
C10_Classification ==
    /\ \A j \in 1..Len(EntriesOf(data_file_manifest_writer)) :
          /\ data_file_manifest_writer[1].content = "Data"
          /\ EntriesOf(data_file_manifest_writer)[j].data_file.file_format = "Parquet"
    /\ \A j \in 1..Len(EntriesOf(file_index_manifest_writer)) :
          /\ file_index_manifest_writer[1].content = "Data"
          /\ EntriesOf(file_index_manifest_writer)[j].data_file.file_format = "Puffin"
    /\ \A j \in 1..Len(EntriesOf(deletion_vector_manifest_writer)) :
          /\ deletion_vector_manifest_writer[1].content = "Deletes"
          /\ EntriesOf(deletion_vector_manifest_writer)[j].data_file.file_format = "Puffin"
    /\ \A D \in DOMAIN existing_deletion_vector_entries :
          existing_deletion_vector_entries[D].data_file.file_format = "Puffin"
    /\ \A i \in 1..Len(manifest_list_writer) :
          manifest_list_writer[i].manifest_path[1] = "uuid" =>
              ~HasUnclassifiedEntry(manifest_list_writer[i])
    /\ (pc = "done" /\ ~RequestIsEmpty) =>
          \A i \in 1..Len(InitialManifests) :
              (Streamed(InitialManifests[i]) /\ HasUnclassifiedEntry(InitialManifests[i]))
                  => Failed /\ result.at \in {"load", "stream"}
    /\ (pc = "done" /\ result.kind = "InconsistentManifest") =>
          /\ result.status = "Panic"
          /\ result.at = "stream"
          /\ Streamed(manifest_list[next_manifest])
          /\ HasUnclassifiedEntry(manifest_list[next_manifest])
          /\ list_obj = initial_list

\* The pass ended on an entry of a format that is neither Parquet nor Puffin.
C10_Witness ==
    /\ pc = "done"
    /\ result.kind = "InconsistentManifest"
    /\ \E j \in 1..Len(manifest_list[next_manifest].entries) :
          manifest_list[next_manifest].entries[j].data_file.file_format = "Avro"


\* The semantic kind of the entry at a position.
KindAt(list, pos) ==
    IF PrimaryDataAt(list, pos) THEN "PrimaryData"
    ELSE IF SecondaryIndexAt(list, pos) THEN "SecondaryIndex"
    ELSE IF DeletionVectorAt(list, pos) THEN "DeletionVector"
    ELSE "Unclassified"

\* The existing entry at `pos` is one the request keeps.
Kept(pos) ==
    LET df == FileAt(InitialManifests, pos) IN
    \/ /\ PrimaryDataAt(InitialManifests, pos)
       /\ df.file_path \notin data_files_to_remove
    \/ /\ SecondaryIndexAt(InitialManifests, pos)
       /\ df.file_path \notin puffin_blobs_to_remove
    \/ /\ DeletionVectorAt(InitialManifests, pos)
       /\ df.referenced_data_file # <<>>
       /\ df.referenced_data_file[1] \notin data_files_to_remove
       /\ RequestedDeletionVectorsOf(df.referenced_data_file[1]) = {}

\* The positions of the output that hold the existing entry at `pos`, with
\* its sequence number, as an entry of the same kind.
CopiesOf(pos) ==
    {q \in Positions(OutputManifests) :
        /\ EntryAt(OutputManifests, q) = EntryAt(InitialManifests, pos)
        /\ KindAt(OutputManifests, q) = KindAt(InitialManifests, pos)}

\* C11 (nothing lost, nothing duplicated): after a successful rewrite every
\* existing primary-data entry whose path is not removed, every existing index
\* entry whose path is not in puffin_blobs_to_remove and every existing
\* deletion vector whose data file is neither removed nor superseded is in
\* the output manifest list exactly once.
C11_KeptEntriesExactlyOnce ==
    Succeeded =>
        \A pos \in Positions(InitialManifests) :
            Kept(pos) => Cardinality(CopiesOf(pos)) = 1

\* A rewrite with a non-empty request succeeded and kept an existing
\* deletion vector, in a manifest it wrote, and an existing index.
C11_Witness ==
    /\ Succeeded
    /\ ~RequestIsEmpty
    /\ \E pos \in Positions(InitialManifests) :
          /\ Kept(pos)
          /\ DeletionVectorAt(InitialManifests, pos)
          /\ \E q \in CopiesOf(pos) : OutputManifests[q[1]].manifest_path[1] = "uuid"
    /\ \E pos \in Positions(InitialManifests) :
          /\ Kept(pos)
          /\ SecondaryIndexAt(InitialManifests, pos)

\* The number a well-formed cardinality stands for.
CardinalityNumber(card) ==
    CASE card = <<<<"1", "0">>>> -> 10
      [] card = <<<<"+", "7">>>> -> 7
      [] card = <<<<"5">>>> -> 5
      [] OTHER -> -1

\* The data file at position `q` of the output is the one built from blob `b`.
BuiltFrom(q, b) ==
    LET df == FileAt(OutputManifests, q)
        blob == BlobAt(b)
    IN  /\ df.file_path = b[1]
        /\ df.file_format = "Puffin"
        /\ df.file_size_in_bytes = 0
        /\ df.record_count = CardinalityNumber(blob.properties.cardinality)
        /\ \/ /\ blob.type = "deletion-vector-v1"
              /\ df.content = "PositionDeletes"
              /\ df.referenced_data_file = blob.properties.referenced_data_file
           \/ /\ blob.type = "mooncake-hash-index-v1"
              /\ df.content = "Data"
              /\ df.referenced_data_file = <<>>

\* C12 (sequence numbers are carried): after a successful rewrite every entry
\* of the output is either an existing entry with the sequence number it had,
\* or the entry built from a new blob with that blob's sequence number.
C12_SequenceNumbersCarried ==
    Succeeded =>
        \A q \in Positions(OutputManifests) :
            \/ \E pos \in Positions(InitialManifests) :
                  EntryAt(OutputManifests, q) = EntryAt(InitialManifests, pos)
            \/ \E b \in RequestedBlobs :
                  /\ BuiltFrom(q, b)
                  /\ EntryAt(OutputManifests, q).sequence_number = BlobAt(b).sequence_number

\* A rewrite succeeded whose output holds, in manifests it wrote, an existing
\* entry and an entry built from a new blob.
C12_Witness ==
    /\ Succeeded
    /\ \E q \in Positions(OutputManifests), pos \in Positions(InitialManifests) :
          /\ OutputManifests[q[1]].manifest_path[1] = "uuid"
          /\ EntryAt(OutputManifests, q) = EntryAt(InitialManifests, pos)
    /\ \E q \in Positions(OutputManifests), b \in RequestedBlobs :
          /\ BuiltFrom(q, b)
          /\ EntryAt(OutputManifests, q).sequence_number = BlobAt(b).sequence_number

\* C13 as stated (no current snapshot): a rewrite with a non-empty request
\* on a table without current snapshot fails with the NoCurrentSnapshot error
\* value and writes no object.
C13_NoSnapshotIsAnErrorValue ==
    (pc = "done" /\ ~has_snapshot /\ ~RequestIsEmpty) =>
        /\ result.status = "Err"
        /\ result.kind = "NoCurrentSnapshot"
        /\ new_objects = {}

\* C13 (amended): a rewrite with a non-empty request on a table without
\* current snapshot panics on the unwrap of the snapshot, before anything is
\* loaded; it returns no error value, writes no object and leaves the
\* manifest list location untouched.
C13_NoSnapshotPanics ==
    /\ (~has_snapshot /\ ~RequestIsEmpty) =>
          /\ pc \in {"call", "load", "done"}
          /\ manifest_list = <<>>
          /\ new_objects = {}
          /\ list_obj = initial_list
          /\ pc = "done" =>
                /\ result.status = "Panic"
                /\ result.kind = "NoCurrentSnapshot"
                /\ result.at = "load"
    /\ (pc = "done" /\ result.kind = "NoCurrentSnapshot") =>
          ~has_snapshot /\ ~RequestIsEmpty

\* A rewrite that adds blobs ended on a table without current snapshot.
C13_Witness ==
    /\ pc = "done"
    /\ ~has_snapshot
    /\ RequestedBlobs # {}
    /\ result.kind = "NoCurrentSnapshot"

\* The signed 64-bit number `i` is the unsigned 64-bit number `u`.
NumericallyEqual(i, u) == u.hi = 0 /\ i.sign = 0 /\ i.lo = u.lo

\* The positions of the output that hold the deletion vector record of blob
\* `b`, field by field, in a manifest of deletes.
DeletionVectorRecordsOf(b) ==
    {q \in Positions(OutputManifests) :
        LET df == FileAt(OutputManifests, q)
            blob == BlobAt(b)
        IN  /\ ContentAt(OutputManifests, q) = "Deletes"
            /\ df.content = "PositionDeletes"
            /\ df.file_path = b[1]
            /\ df.file_format = "Puffin"
            /\ df.referenced_data_file = blob.properties.referenced_data_file
            /\ df.content_offset # <<>>
            /\ NumericallyEqual(df.content_offset[1], blob.offset)
            /\ df.content_size_in_bytes # <<>>
            /\ NumericallyEqual(df.content_size_in_bytes[1], blob.length)
            /\ df.record_count = CardinalityNumber(blob.properties.cardinality)
            /\ df.file_size_in_bytes = 0
            /\ df.stats = {}}

\* The blobs of the request that are the same blob in the same puffin file.
SameBlobs(b) == {c \in RequestedBlobs : c[1] = b[1] /\ BlobAt(c) = BlobAt(b)}

\* The paths of the primary-data entries of a manifest list.
PrimaryDataPaths(list) ==
    {FileAt(list, pos).file_path : pos \in {p \in Positions(list) : PrimaryDataAt(list, p)}}

\* C14 (deletion vector record): after a successful rewrite every new
\* deletion vector blob has its one record in a manifest of deletes: content
\* position-deletes, the puffin file's path, format Puffin, the blob's
\* referenced data file, offset, length and cardinality, file size 0, no
\* statistics; and when data files are removed the primary-data entries of the
\* output are those of the input that were not removed, in a data manifest.
C14_DeletionVectorRecord ==
    Succeeded =>
        /\ \A b \in RequestedBlobs :
              BlobAt(b).type = "deletion-vector-v1" =>
                  Cardinality(DeletionVectorRecordsOf(b)) = Cardinality(SameBlobs(b))
        /\ data_files_to_remove # {} =>
              /\ PrimaryDataPaths(OutputManifests)
                    = PrimaryDataPaths(InitialManifests) \ data_files_to_remove
              /\ \A q \in Positions(OutputManifests) :
                    FileAt(OutputManifests, q).file_format = "Parquet" =>
                        ContentAt(OutputManifests, q) = "Data"

\* The rewrite removed a.parquet, kept b.parquet and added a deletion vector
\* for b.parquet.
C14_Witness ==
    /\ Succeeded
    /\ data_files_to_remove = {"a.parquet"}
    /\ PrimaryDataPaths(InitialManifests) = {"a.parquet", "b.parquet"}
    /\ PrimaryDataPaths(OutputManifests) = {"b.parquet"}
    /\ \E b \in RequestedDeletionVectorsOf("b.parquet") : DeletionVectorRecordsOf(b) # {}

PrimaryDataManifest(manifest) ==
    /\ manifest.content = "Data"
    /\ manifest.entries # <<>>
    /\ \A j \in 1..Len(manifest.entries) :
          manifest.entries[j].data_file.file_format = "Parquet"

\* Every Parquet entry of the input is in a primary-data manifest.
DataFilesInPrimaryDataManifests ==
    \A pos \in Positions(InitialManifests) :
        FileAt(InitialManifests, pos).file_format = "Parquet" =>
            PrimaryDataManifest(InitialManifests[pos[1]])

C17_RemovedIndexAbsent ==
    (Succeeded /\ InitialListIsSound) =>
        \A pos \in Positions(InitialManifests) :
            (/\ SecondaryIndexAt(InitialManifests, pos)
             /\ FileAt(InitialManifests, pos).file_path \in puffin_blobs_to_remove)
            => \A q \in Positions(OutputManifests) :
                   EntryAt(OutputManifests, q) # EntryAt(InitialManifests, pos)

\* The place of a manifest in the new list: 0 for a manifest carried over,
\* then the data manifest, the index manifest, the deletion vector manifest.
ManifestRank(manifest) ==
    IF manifest.manifest_path[1] # "uuid" THEN 0
    ELSE IF manifest.content = "Deletes" THEN 3
    ELSE IF manifest.entries # <<>> /\ manifest.entries[1].data_file.file_format = "Parquet"
         THEN 1
    ELSE 2

\* The manifest writers that exist.
OpenWriters ==
    {w \in {data_file_manifest_writer, file_index_manifest_writer,
            deletion_vector_manifest_writer} : w # <<>>}

\* C18 (writers and order): a rewrite creates at most three manifest writers,
\* each one when its first entry is added, so every manifest file written
\* holds an entry; the new list registers the manifests carried over first,
\* then the new data, index and deletion vector manifests in that order, each
\* once; the list is written by one close, the last step of a successful pass.
C18_WritersAndOrder ==
    /\ uuid_count <= 3
    /\ Cardinality({o.path : o \in new_objects}) <= 3
    /\ \A w \in OpenWriters : w[1].entries # <<>>
    /\ \A k \in 1..Len(manifest_list_writer) :
          /\ manifest_list_writer[k].entries # <<>>
          /\ manifest_list_writer[k].manifest_path[1] = "uuid" =>
                [path |-> manifest_list_writer[k].manifest_path, complete |-> TRUE]
                    \in new_objects
    /\ \A o \in new_objects :
          /\ o.path[1] = "uuid" /\ o.path[2] \in 1..uuid_count
          /\ o.complete =>
                \E k \in 1..Len(manifest_list_writer) :
                    manifest_list_writer[k].manifest_path = o.path
    /\ \A k, l \in 1..Len(manifest_list_writer) :
          k < l =>
              /\ ManifestRank(manifest_list_writer[k]) <= ManifestRank(manifest_list_writer[l])
              /\ ManifestRank(manifest_list_writer[l]) # 0 =>
                    ManifestRank(manifest_list_writer[k]) < ManifestRank(manifest_list_writer[l])
    /\ list_obj # initial_list => pc = "done" /\ result.at = "close"
    /\ (Succeeded /\ ~RequestIsEmpty) =>
          /\ result.at = "close"
          /\ OpenWriters = {}
          /\ OutputManifests = manifest_list_writer

\* A rewrite succeeded that wrote the three manifest files.
C18_Witness ==
    /\ Succeeded
    /\ Cardinality(new_objects) = 3
    /\ Len(OutputManifests) = 3
    /\ ManifestRank(OutputManifests[1]) = 1
    /\ ManifestRank(OutputManifests[2]) = 2
    /\ ManifestRank(OutputManifests[3]) = 3

\* What a failed pass has not done, by the step that failed.
StoppedWhereItFailed ==
    /\ result.at \in {"load", "stream", "merge", "flush_data", "flush_index",
                      "flush_dv", "close"}
    /\ result.kind = "Storage" => result.status = "Err"
    /\ result.at = "load" =>
          /\ manifest_list = <<>> /\ next_manifest = 0
    /\ result.at \in {"load", "stream"} =>
          /\ next_manifest <= Len(manifest_list)
          /\ pending_archives = DOMAIN puffin_blobs_to_add
    /\ result.at \in {"load", "stream", "merge"} =>
          /\ new_objects = {}
          /\ \A k \in 1..Len(manifest_list_writer) :
                manifest_list_writer[k].manifest_path[1] # "uuid"
    /\ result.at # "close" => list_obj = initial_list
    /\ result.at = "flush_data" => \A o \in new_objects : ~o.complete
    /\ result.at \in {"flush_data", "flush_index"} =>
          deletion_vector_manifest_writer = <<>> \/ Cardinality(new_objects) <= 2

\* C19 (terminal on the first failure): the pass ends at the step that
\* fails, a storage failure being returned as an error, and nothing runs
\* after it: no further manifest is loaded, no manifest file is written, the
\* list is not closed; without failure every manifest of the list is visited
\* once, in order, before the close; and every invocation ends, in success or
\* in a failure.
C19_TerminalOnFirstError ==
    /\ [](pc = "done" <=> result.status # "Running")
    /\ [](result.status \in {"Running", "Ok", "Err", "Panic"})
    /\ [](Failed => StoppedWhereItFailed)
    /\ [](pc \in {"merge", "drain", "flush_data", "flush_index", "flush_dv", "close"}
             => next_manifest = Len(manifest_list) + 1)
    /\ [](pc \in {"drain", "flush_data", "flush_index", "flush_dv", "close"}
             => pending_archives = {})
    /\ [][pc = "done" => UNCHANGED vars]_vars
    /\ [][next_manifest' \in {next_manifest, next_manifest + 1}]_vars
    /\ <>(pc = "done")

\* A pass failed on the load of the second manifest of the list.
C19_Witness ==
    /\ Failed
    /\ result.kind = "Storage"
    /\ result.at = "stream"
    /\ next_manifest = 2
    /\ Len(manifest_list) = 2

\* The objects written that the manifest list at the snapshot's location
\* does not refer to.
Orphans ==
    {o \in new_objects :
        \A k \in 1..Len(OutputManifests) : OutputManifests[k].manifest_path # o.path}

\* C20 (nothing written before the flush): no manifest file and no manifest
\* list is written until every manifest was streamed and every new blob
\* merged, so a pass that ends while classifying, detecting duplicates or
\* building blob records leaves no new object; orphaned manifest files exist
\* only after a failure of a flush or of the close.
C20_NothingWrittenBeforeFlush ==
    /\ pc \in {"call", "load", "stream", "merge", "drain"} =>
          /\ new_objects = {}
          /\ list_obj = initial_list
    /\ (pc = "done" /\ result.at \in {"call", "load", "stream", "merge"}) =>
          /\ new_objects = {}
          /\ list_obj = initial_list
    /\ Orphans # {} =>
          \/ pc \in {"flush_index", "flush_dv", "close"}
          \/ /\ Failed
             /\ result.at \in {"flush_data", "flush_index", "flush_dv", "close"}
    /\ Succeeded => Orphans = {}

\* The write of the index manifest failed after the data manifest was written.
C20_Witness ==
    /\ Failed
    /\ result.at = "flush_index"
    /\ \E o \in Orphans : o.complete

\* The manifest entry `e` is the record of blob `blob` of puffin file `f`,
\* with the blob's sequence number, as an entry of kind `content`.
RecordOf(e, f, blob, content) ==
    /\ e.sequence_number = blob.sequence_number
    /\ e.data_file.content = content
    /\ e.data_file.file_path = f
    /\ e.data_file.file_format = "Puffin"
    /\ e.data_file.record_count = CardinalityNumber(blob.properties.cardinality)

\* The manifest entry `e` is an entry of the manifest list before the call.
ExistingEntry(e) ==
    \E pos \in Positions(InitialManifests) : EntryAt(InitialManifests, pos) = e

\* Every entry of `writer` is an existing entry or the record, of kind
\* `content`, of a new blob of type `type`.
OnlyBlobsOfType(writer, type, content) ==
    \A j \in 1..Len(EntriesOf(writer)) :
        \/ ExistingEntry(EntriesOf(writer)[j])
        \/ \E b \in RequestedBlobs :
              /\ BlobAt(b).type = type
              /\ RecordOf(EntriesOf(writer)[j], b[1], BlobAt(b), content)

\* C21 (dispatch on the blob type): a new blob goes to the index manifest
\* only when its type is the hash index type and to the deletion vectors only
\* when its type is the deletion vector type; a request with a blob of any
\* other type never succeeds, the merge step ends on the unexpected type, and
\* no writer ever holds a record of such a blob.
C21_BlobTypeDispatch ==
    /\ OnlyBlobsOfType(file_index_manifest_writer, "mooncake-hash-index-v1", "Data")
    /\ OnlyBlobsOfType(deletion_vector_manifest_writer, "deletion-vector-v1",
                       "PositionDeletes")
    /\ \A j \in 1..Len(EntriesOf(data_file_manifest_writer)) :
          ExistingEntry(EntriesOf(data_file_manifest_writer)[j])
    /\ (pc = "done" /\ HasUnknownBlobType) =>
          /\ Failed
          /\ list_obj = initial_list
          /\ new_objects = {}
          /\ result.at = "merge" =>
                result.status = "Panic" /\ result.kind = "UnexpectedBlobType"

\* The merge step ended on a blob of an unknown type, after a blob of
\* another puffin file went to its writer.
C21_Witness ==
    /\ pc = "done"
    /\ result.at = "merge"
    /\ result.kind = "UnexpectedBlobType"
    /\ HasUnknownBlobType
    /\ \E j \in 1..Len(EntriesOf(deletion_vector_manifest_writer)) :
          ~ExistingEntry(EntriesOf(deletion_vector_manifest_writer)[j])

\* The positions of the output that hold the index record of blob `b`,
\* field by field, in a manifest of data.
IndexRecordsOf(b) ==
    {q \in Positions(OutputManifests) :
        LET df == FileAt(OutputManifests, q)
            blob == BlobAt(b)
        IN  /\ ContentAt(OutputManifests, q) = "Data"
            /\ df.content = "Data"
            /\ df.file_path = b[1]
            /\ df.file_format = "Puffin"
            /\ df.record_count = CardinalityNumber(blob.properties.cardinality)
            /\ df.file_size_in_bytes = 0
            /\ df.referenced_data_file = <<>>
            /\ df.content_offset = <<>>
            /\ df.content_size_in_bytes = <<>>
            /\ df.stats = {}}

\* The manifests of the output that hold a secondary-index entry.
IndexManifests ==
    {q[1] : q \in {p \in Positions(OutputManifests) : SecondaryIndexAt(OutputManifests, p)}}

\* The request adds a blob of the hash index type.
AddsIndexBlob == \E b \in RequestedBlobs : BlobAt(b).type = "mooncake-hash-index-v1"

\* C22 (index record): after a successful rewrite of a sound manifest list every new index blob has
\* its one record in the output: content data, the puffin file's path, format
\* Puffin, the blob's cardinality as record count, file size 0, no referenced
\* data file, no content offset and no content length; and the index entries
\* of the output, kept ones and new ones, are all in one manifest.
C22_IndexRecord ==
    (Succeeded /\ AddsIndexBlob /\ InitialListIsSound) =>
        /\ \A b \in RequestedBlobs :
              BlobAt(b).type = "mooncake-hash-index-v1" =>
                  /\ Cardinality(IndexRecordsOf(b)) = Cardinality(SameBlobs(b))
                  /\ \A q \in IndexRecordsOf(b) :
                        OutputManifests[q[1]].manifest_path[1] = "uuid"
        /\ Cardinality(IndexManifests) = 1

\* The existing deletion vectors whose own puffin file is in
\* puffin_blobs_to_remove and whose data file is neither removed nor given a
\* new deletion vector.
KeptDeletionVectorsOfRemovedFiles ==
    {pos \in Positions(InitialManifests) :
        /\ DeletionVectorAt(InitialManifests, pos)
        /\ FileAt(InitialManifests, pos).file_path \in puffin_blobs_to_remove
        /\ FileAt(InitialManifests, pos).referenced_data_file # <<>>
        /\ FileAt(InitialManifests, pos).referenced_data_file[1] \notin data_files_to_remove
        /\ RequestedDeletionVectorsOf(FileAt(InitialManifests, pos).referenced_data_file[1]) = {}}

\* The new blobs of puffin files that are in puffin_blobs_to_remove.
BlobsOfRemovedFiles == {b \in RequestedBlobs : b[1] \in puffin_blobs_to_remove}

\* C23 (puffin_blobs_to_remove concerns existing index entries only): after a
\* successful rewrite an existing deletion vector whose own puffin file is in
\* puffin_blobs_to_remove, its data file neither removed nor superseded, is
\* in the output once, among the deletion vectors; and every new blob of a
\* puffin file that is in puffin_blobs_to_remove has its record in the output.
C23_RemovalConcernsIndicesOnly ==
    Succeeded =>
        /\ \A pos \in KeptDeletionVectorsOfRemovedFiles : Cardinality(CopiesOf(pos)) = 1
        /\ \A b \in BlobsOfRemovedFiles :
              /\ BlobAt(b).type = "mooncake-hash-index-v1" =>
                    Cardinality(IndexRecordsOf(b)) = Cardinality(SameBlobs(b))
              /\ BlobAt(b).type = "deletion-vector-v1" =>
                    Cardinality(DeletionVectorRecordsOf(b)) = Cardinality(SameBlobs(b))

\* A rewrite that removes p.puffin succeeded: it kept the deletion vector that
\* p.puffin holds and added a new index and a new deletion vector of p.puffin.
C23_Witness ==
    /\ Succeeded
    /\ puffin_blobs_to_remove = {"p.puffin"}
    /\ KeptDeletionVectorsOfRemovedFiles # {}
    /\ \E b, c \in BlobsOfRemovedFiles :
          /\ BlobAt(b).type = "mooncake-hash-index-v1"
          /\ BlobAt(c).type = "deletion-vector-v1"
          /\ IndexRecordsOf(b) # {}
          /\ DeletionVectorRecordsOf(c) # {}

\* The positions of the output that hold a deletion vector the rewrite built
\* from a new blob.
NewDeletionVectorPositions ==
    {q \in Positions(OutputManifests) :
        /\ DeletionVectorAt(OutputManifests, q)
        /\ ~ExistingEntry(EntryAt(OutputManifests, q))}

\* C24 (offset and length over the whole unsigned range): after a successful
\* rewrite the content offset and the content length of every deletion vector
\* record built from a new blob are not negative and are, as numbers, the
\* offset and the length of a blob of its puffin file, also when these are
\* 2^63 or more.
C24_OffsetAndLengthAsNumbers ==
    Succeeded =>
        \A q \in NewDeletionVectorPositions :
            LET df == FileAt(OutputManifests, q) IN
            /\ df.content_offset # <<>>
            /\ df.content_size_in_bytes # <<>>
            /\ df.content_offset[1].sign = 0
            /\ df.content_size_in_bytes[1].sign = 0
            /\ \E b \in RequestedBlobs :
                  /\ b[1] = df.file_path
                  /\ NumericallyEqual(df.content_offset[1], BlobAt(b).offset)
                  /\ NumericallyEqual(df.content_size_in_bytes[1], BlobAt(b).length)

\* The calls the inner accessor received from operation `o`.
InnerCallsOf(o) == {c \in inner : c.by = o}

\* Operation `o` returned the injected error.
ReturnedInjectedError(o) ==
    /\ calls[o].pc = "done"
    /\ option.injected_error # <<>>
    /\ calls[o].result = [status |-> "Err", error |-> option.injected_error[1]]

\* Operation `o` is past its sleep.
PastSleep(o) == calls[o].pc \in {"lock_error", "draw_error", "delegate", "inner", "done"}

\* Operation `o` is past the error draw of perform_wrapper_function.
PastErrorDraw(o) == calls[o].pc \in {"delegate", "inner", "done"}

\* The latency of operation `o` is in [min_latency, max_latency] and `o`
\* waited that long before the error draw.
LatencyInRange(o) ==
    /\ calls[o].latency # <<>>
    /\ NanosLe(option.min_latency, calls[o].latency[1])
    /\ NanosLe(calls[o].latency[1], option.max_latency)
    /\ calls[o].remaining = 0
    /\ calls[o].waited >= calls[o].latency[1].lo

\* What is after the sleep of operation `o`: the error draw, then the inner
\* accessor; an injected error is returned without a call of the inner
\* accessor, anything else is what the one call of the inner accessor returned.
DrawThenDelegate(o) ==
    /\ InnerCallsOf(o) # {} => PastErrorDraw(o)
    /\ Cardinality(InnerCallsOf(o)) <= 1
    /\ ReturnedInjectedError(o) => InnerCallsOf(o) = {}
    /\ (calls[o].pc = "done" /\ ~ReturnedInjectedError(o)) =>
          \E c \in InnerCallsOf(o) :
              /\ c.operation = calls[o].operation
              /\ c.returned = <<calls[o].result>>
    /\ calls[o].pc # "done" => calls[o].result = [status |-> "Running"]

\* C25 (latency, error draw, delegation): every operation first waits a
\* latency within [min_latency, max_latency], then makes the error draw, and
\* only then calls the inner accessor; with the error injected it returns that
\* error and the inner accessor is not called, otherwise it returns what the
\* inner accessor returned.
C25_LatencyThenDrawThenDelegate ==
    \A o \in DOMAIN calls :
        /\ PastSleep(o) => LatencyInRange(o)
        /\ DrawThenDelegate(o)

\* C26 (probability of the injected error): with an injected error and
\* prob = 100 every operation returns the error; with prob = 0 no operation
\* returns it; without an injected error no operation fails by injection,
\* whatever prob is: what it returns is what the inner accessor returned.
C26_InjectionByProbability ==
    \A o \in DOMAIN calls :
        calls[o].pc = "done" =>
            /\ (option.injected_error # <<>> /\ option.prob = 100) => ReturnedInjectedError(o)
            /\ option.prob = 0 => ~ReturnedInjectedError(o)
            /\ option.injected_error = <<>> =>
                  \E c \in InnerCallsOf(o) : c.returned = <<calls[o].result>>

\* The mutex of the generator is held by an operation only between its lock
\* and the draw that follows.
LockOnlyForADraw ==
    \A o \in DOMAIN calls :
        /\ rng = o => calls[o].pc \in {"draw_duration", "draw_error"}
        /\ calls[o].pc \in {"draw_duration", "draw_error"} => rng = o

\* No operation has waited longer than its own latency: while it sleeps the
\* time it waited and what is left of the sleep make up its latency, and at
\* the end of perform_wrapper_function it waited its latency.
NoDelayFromOthers ==
    \A o \in DOMAIN calls :
        /\ calls[o].pc \in {"lock_duration", "draw_duration"} => calls[o].waited = 0
        /\ calls[o].pc = "sleep" =>
              calls[o].waited + calls[o].remaining = calls[o].latency[1].lo
        /\ PastSleep(o) => calls[o].waited = calls[o].latency[1].lo

\* C27 (operations in flight together): the mutex of the random generator is
\* held only for one draw, never while an operation sleeps or while the inner
\* accessor runs; no operation waits longer than its own latency because of
\* another; and every operation that was called completes.
C27_ConcurrentOperations ==
    /\ [] LockOnlyForADraw
    /\ [] NoDelayFromOthers
    /\ \A o \in 1..MaxCalls : (calls[o].pc # "idle") ~> (calls[o].pc = "done")

\* An operation was called while another had slept for a while and was still
\* asleep, and it holds the mutex for its error draw without having waited.
C27_Witness ==
    \E a, b \in DOMAIN calls :
        /\ calls[a].pc = "sleep"
        /\ calls[a].waited > 0
        /\ calls[a].remaining > 0
        /\ calls[b].pc = "draw_error"
        /\ calls[b].waited = 0
        /\ rng = b

====
